---- MODULE Spec2Model ----
(***************************************************************************)
(* Verification model of the doctor-appointment client data layer:        *)
(*   - the transport client's error normalisation (lib/api.ts,            *)
(*     lib/error-handling.ts),                                             *)
(*   - the query cache configuration and the appointment hooks            *)
(*     (lib/react-query.ts, hooks/queries/appointments.ts),               *)
(*   - the session store (store/auth-store.ts, services/auth.ts).         *)
(* Optional values (undefined / null / absent field) are sequences of     *)
(* length 0 or 1.                                                          *)
(***************************************************************************)
EXTENDS Integers, Sequences, FiniteSets, TLC

(* ------------------------------ bounds -------------------------------- *)
\* the clock stops advancing at MaxTime
MaxTime == 1
\* number of hooks mounted on one query key at a time
MaxObservers == 2
\* number of session-store async calls (login / register) in one run
MaxAuthCalls == 2
\* notifications added in one run
MaxNotifications == 2
\* the simulated clock stops here (ms)
MaxClock == 7000

(* ------------------------- program constants -------------------------- *)
\* queryConfig.queries.retry: failureCount < 3
MaxQueryRetries == 3
\* queryConfig.mutations.retry: 1
MutationRetry == 1
\* transformPaginatedResponse / server default page size
DefaultLimit == 10
\* addNotification: duration when none is given (ms)
DefaultDuration == 5000

None == <<>>
Some(x) == <<x>>
IsSome(o) == Len(o) = 1
Val(o) == o[1]

(* =========================== transport errors ========================= *)
\* HTTP statuses of failed responses the backend may answer with
FailStatuses == {400, 401, 500}

\* what axios hands to the response interceptor: a failure with or without
\* a server reply
AxiosFailures ==
  {[response |-> None]} \cup {[response |-> Some(s)] : s \in FailStatuses}

\* apiClient.interceptors.response (error branch); a request is fresh
\* (_retry unset) when it reaches the interceptor. The message of a plain
\* ApiError comes from the response body.
responseInterceptor(err) ==
  IF ~IsSome(err.response)
    THEN [class |-> "NetworkError", status |-> 0,
          message |-> "Network connection failed"]
    ELSE IF Val(err.response) = 401
      THEN [class |-> "AuthenticationError", status |-> 401,
            message |-> "Session expired"]
      ELSE [class |-> "Object",
            status |-> IF Val(err.response) = 0 THEN 500 ELSE Val(err.response),
            message |-> "Request failed"]

\* errorUtils.getErrorStatus
getErrorStatus(error) ==
  IF error.class \in {"NetworkError", "AuthenticationError"}
    THEN error.status
    ELSE IF error.status = 0 THEN 500 ELSE error.status

\* errorUtils.toApiError: a plain {message, status, code} object; it is not
\* an Error instance and has no `response` field
toApiError(error) ==
  [isError |-> FALSE, message |-> error.message,
   status |-> Some(getErrorStatus(error)), response |-> None]

\* makeApiRequest (catch branch): what every domain service throws
makeApiRequestThrows(err) == toApiError(responseInterceptor(err))

ServiceErrors == {makeApiRequestThrows(err) : err \in AxiosFailures}

\* failures carrying response.status, as raised by stubbed fetchers
ResponseErrors ==
  {[isError |-> FALSE, message |-> "stub", status |-> None, response |-> Some(s)] :
     s \in {404, 500}}

FetcherErrors == ServiceErrors \cup ResponseErrors

\* the HTTP-level status a failure value stands for
StatusOf(e) ==
  IF IsSome(e.response) THEN Val(e.response)
  ELSE IF IsSome(e.status) THEN Val(e.status) ELSE 0

Is4xx(e) == StatusOf(e) >= 400 /\ StatusOf(e) < 500

(* ========================== retry policies ============================ *)
\* a retry predicate that allows one attempt more
queryRetryOneMore(failureCount, error) ==
  IF IsSome(error.response) /\ Val(error.response) # 0
       /\ Val(error.response) >= 400 /\ Val(error.response) < 500
    THEN FALSE
    ELSE failureCount <= MaxQueryRetries

\* queryConfig.queries.retry
queryRetry(failureCount, error) ==
  IF IsSome(error.response) /\ Val(error.response) # 0
       /\ Val(error.response) >= 400 /\ Val(error.response) < 500
    THEN FALSE
    ELSE failureCount < MaxQueryRetries

\* queryConfig.mutations.retry (a number: the error is not inspected)
mutationRetry(failureCount, error) == failureCount < MutationRetry

(* ============================== state ================================= *)
VARIABLES
  now,              \* wall clock (Date.now()), shared by client and backend
  srv,              \* backend: appointment id -> optional raw record
  cache,            \* query cache: key -> query state
  mut,              \* updateAppointmentStatus mutations
  cm,               \* the createAppointment mutation
  user, token, isAuthenticated, isLoading, error,   \* session store
  lsToken, lsUser,  \* localStorage keys auth_token / user_data
  authCall,         \* session-store async calls in flight
  last,             \* the last session operation and what it threw or sent
  cu,               \* the ['auth','current-user'] cache entry
  redirected,       \* window.location.href = '/login' has been assigned
  uiIsLoading,      \* UI store: isLoading
  modals,           \* UI store: modal name -> open
  notifications,    \* UI store: the notification list
  timers,           \* pending setTimeout callbacks of addNotification
  issued,           \* every notification added so far, with its history
  input,            \* what a key factory or a transformer is called with
  output            \* what it returned, once it has been called

cacheVars == <<now, srv, cache, mut, cm>>
authVars == <<user, token, isAuthenticated, isLoading, error, lsToken, lsUser, authCall>>
storeVars == <<user, token, isAuthenticated, isLoading, error, authCall>>
sessionVars == <<last, cu, redirected>>
uiVars == <<uiIsLoading, modals, notifications, timers, issued>>
callVars == <<input, output>>
vars == <<now, srv, cache, mut, cm,
          user, token, isAuthenticated, isLoading, error, lsToken, lsUser, authCall,
          last, cu, redirected, uiIsLoading, modals, notifications, timers, issued,
          input, output>>

\* the response interceptor's 401 branch as a failing request passes it: the
\* legacy keys are removed and the redirect to /login is signalled; the
\* session store is not touched
transport401(e) ==
  IF e.status = Some(401)
    THEN lsToken' = "null" /\ lsUser' = "null" /\ redirected' = TRUE
    ELSE UNCHANGED <<lsToken, lsUser, redirected>>

(* ========================= payload values ============================= *)
\* the values a JSON field of a reply can hold, as the transformers see
\* them: absent, a number, a numeral in a string ('25'), any other string
\* ('abc'); NaN is what Number() makes of a value that is not numeric
Undefined == [t |-> "undefined", v |-> 0]
Num(n) == [t |-> "number", v |-> n]
NaN == [t |-> "NaN", v |-> 0]
NumericString(n) == [t |-> "numeric string", v |-> n]
OtherString == [t |-> "string", v |-> 0]

\* truthiness: undefined, 0 and NaN are falsy, non-empty strings are not
Truthy(x) ==
  IF x.t = "number" THEN x.v # 0
  ELSE x.t \in {"numeric string", "string"}

\* Number(x)
Number(x) ==
  IF x.t = "number" THEN x
  ELSE IF x.t = "numeric string" THEN Num(x.v)
  ELSE NaN

\* x + n
Plus(x, n) == IF Number(x).t = "number" THEN Num(Number(x).v + n) ELSE NaN

(* ============================= backend ================================ *)
\* appointments that exist when the client starts
InitialIds == {1, 2}
\* the id the backend gives the appointment made by createAppointment
CreatedId == Cardinality(InitialIds) + 1
AllIds == InitialIds \cup {CreatedId}

\* ids the backend currently holds, ascending
RECURSIVE IdsFrom(_)
IdsFrom(i) ==
  IF i > CreatedId THEN <<>>
  ELSE IF IsSome(srv[i]) THEN <<i>> \o IdsFrom(i + 1) ELSE IdsFrom(i + 1)

Ceil(a, b) == (a + b - 1) \div b

\* GET /appointments/patient, /appointments/doctor with filters
\* {page: 1, limit}: first page of the backend's appointments
serverPage(limit) ==
  LET ids == IdsFrom(1)
      n == Len(ids)
      shown == IF n <= limit THEN n ELSE limit
  IN [data |-> [i \in 1..shown |-> Val(srv[ids[i]])],
      pagination |-> [page |-> Num(1), limit |-> Num(limit), total |-> Num(n),
                      totalPages |-> Num(Ceil(n, limit))]]

\* the reply when the filters give no limit
serverList == serverPage(DefaultLimit)

\* GET /doctors with filters {page: 1}: no doctor matches
doctorsPage ==
  [data |-> <<>>,
   pagination |-> [page |-> Num(1), limit |-> Num(DefaultLimit), total |-> Num(0),
                   totalPages |-> Num(0)]]

(* ======================== response normaliser ========================= *)
\* responseTransformers.transformAppointment (the fields the hooks
\* rewrite); a timestamp is taken from updatedAt, else from updated_at,
\* else from the clock
transformAppointment(appointment) ==
  [id |-> appointment.id,
   status |-> IF appointment.status = "COMPLETED" THEN "COMPLETED"
              ELSE IF appointment.status = "CANCELLED" THEN "CANCELLED"
              ELSE "PENDING",
   updatedAt |-> IF "updatedAt" \in DOMAIN appointment THEN appointment.updatedAt
                 ELSE IF "updated_at" \in DOMAIN appointment THEN appointment.updated_at
                 ELSE now]

\* x || d
OrDefault(x, d) == IF Truthy(x) THEN x ELSE d

\* a property of an object that may lack it
Field(object, name) == IF name \in DOMAIN object THEN object[name] ELSE Undefined

\* Math.ceil(a / b), the operands coerced to numbers; b is not zero
CeilOfQuotient(a, b) ==
  IF Number(a).t = "NaN" \/ Number(b).t = "NaN" THEN NaN
  ELSE Num(Ceil(Number(a).v, Number(b).v))

\* a transformPaginatedResponse that computes totalPages with the default
\* limit whatever the payload's limit
transformPaginatedResponseDefaultLimit(response) ==
  LET data == IF "data" \in DOMAIN response THEN response.data ELSE <<>>
      pagination == IF "pagination" \in DOMAIN response THEN response.pagination
                    ELSE [page |-> Undefined]
  IN [data |-> [i \in 1..Len(data) |-> transformAppointment(data[i])],
      pagination |->
        [page |-> Number(OrDefault(Field(pagination, "page"), Num(1))),
         limit |-> Number(OrDefault(Field(pagination, "limit"), Num(DefaultLimit))),
         total |-> Number(OrDefault(Field(pagination, "total"), Num(0))),
         totalPages |->
           Number(OrDefault(Field(pagination, "totalPages"),
                            CeilOfQuotient(OrDefault(Field(pagination, "total"), Num(0)),
                                           Num(DefaultLimit))))]]

\* responseTransformers.transformPaginatedResponse with transformAppointment:
\* data that is not an array counts as empty, a missing pagination as {}
transformPaginatedResponse(response) ==
  LET data == IF "data" \in DOMAIN response THEN response.data ELSE <<>>
      pagination == IF "pagination" \in DOMAIN response THEN response.pagination
                    ELSE [page |-> Undefined]
  IN [data |-> [i \in 1..Len(data) |-> transformAppointment(data[i])],
      pagination |->
        [page |-> Number(OrDefault(Field(pagination, "page"), Num(1))),
         limit |-> Number(OrDefault(Field(pagination, "limit"), Num(DefaultLimit))),
         total |-> Number(OrDefault(Field(pagination, "total"), Num(0))),
         totalPages |->
           Number(OrDefault(Field(pagination, "totalPages"),
                            CeilOfQuotient(OrDefault(Field(pagination, "total"), Num(0)),
                                           OrDefault(Field(pagination, "limit"),
                                                     Num(DefaultLimit)))))]]

\* a reply is handed to transformPaginatedResponse
Normalize ==
  /\ output = None
  /\ "success" \in DOMAIN input
  /\ output' = Some([once |-> transformPaginatedResponse(input), twice |-> None])
  /\ UNCHANGED input
  /\ UNCHANGED <<cacheVars, authVars, sessionVars, uiVars>>

\* the normalised object is handed to transformPaginatedResponse again
NormalizeAgain ==
  /\ IsSome(output)
  /\ "once" \in DOMAIN Val(output)
  /\ Val(output).twice = None
  /\ output' = Some([Val(output) EXCEPT
                       !.twice = Some(transformPaginatedResponse(Val(output).once))])
  /\ UNCHANGED input
  /\ UNCHANGED <<cacheVars, authVars, sessionVars, uiVars>>

(* ============================ query keys ============================== *)
\* queryKeys.patientAppointments / doctorAppointments / appointmentDetails;
\* the filters object {page: 1} is the key element 1
PatientKey == <<"appointments", "patient", 1>>
DoctorKey == <<"appointments", "doctor", 1>>
DetailKey(id) == <<"appointments", "detail", id>>
ListKeys == {PatientKey, DoctorKey}
DetailKeys == {DetailKey(id) : id \in InitialIds}
Keys == ListKeys \cup DetailKeys

\* usePatientAppointments({page: 1, limit: SmallLimit}): the filters object
\* is the key element 2; the first page is exactly full
SmallLimit == Cardinality(InitialIds)
SmallPageKey == <<"appointments", "patient", 2>>
\* queryKeys.doctorsList({page: 1})
DoctorsKey == <<"doctors", "list", 1>>
PatientKeys == {PatientKey, SmallPageKey}
WideKeys == Keys \cup {SmallPageKey, DoctorsKey}
limitOf(k) == IF k = SmallPageKey THEN SmallLimit ELSE DefaultLimit

\* filters objects the list hooks are called with: the properties page and
\* limit, each given or not, in the order they were written
DefaultPage == 1
FilterNames == {"page", "limit"}
FilterValues(name) == IF name = "page" THEN {DefaultPage, 2} ELSE {DefaultLimit, 20}
Properties == {[name |-> n, value |-> v] : n \in FilterNames, v \in {DefaultPage, 2, DefaultLimit, 20}}
FilterProperties == {p \in Properties : p.value \in FilterValues(p.name)}
FilterObjects ==
  {<<>>} \cup {<<p>> : p \in FilterProperties}
         \cup {pq \in FilterProperties \X FilterProperties : pq[1].name # pq[2].name}

\* queryKeys.doctorsList / patientAppointments / doctorAppointments: the
\* filters object is the last key element, as given
KeyFactories == {"doctorsList", "patientAppointments", "doctorAppointments"}
queryKey(factory, filters) ==
  IF factory = "doctorsList" THEN <<"doctors", "list", filters>>
  ELSE IF factory = "patientAppointments" THEN <<"appointments", "patient", filters>>
  ELSE <<"appointments", "doctor", filters>>

\* hashKey (library): the identity of a cache entry is the key's JSON with
\* every object's properties sorted by name
hashKey(key) ==
  <<key[1], key[2],
    [n \in {key[3][i].name : i \in 1..Len(key[3])} |->
       (CHOOSE p \in {key[3][i] : i \in 1..Len(key[3])} : p.name = n).value]>>

\* doctorFiltersSchema / appointmentFiltersSchema: the parameters a filters
\* object stands for
effectiveFilters(filters) ==
  [n \in FilterNames |->
     IF \E i \in 1..Len(filters) : filters[i].name = n
       THEN (CHOOSE p \in {filters[i] : i \in 1..Len(filters)} : p.name = n).value
       ELSE IF n = "page" THEN DefaultPage ELSE DefaultLimit]

\* two hooks of one kind are called with filters a and b: the cache entries
\* they use
CallKeyFactory ==
  /\ output = None
  /\ "factory" \in DOMAIN input
  /\ output' = Some([a |-> hashKey(queryKey(input.factory, input.a)),
                     b |-> hashKey(queryKey(input.factory, input.b))])
  /\ UNCHANGED input
  /\ UNCHANGED <<cacheVars, authVars, sessionVars, uiVars>>

\* partial query-key matching of getQueriesData / invalidateQueries /
\* cancelQueries
Matches(prefix, key) ==
  Len(prefix) <= Len(key) /\ SubSeq(key, 1, Len(prefix)) = prefix

\* the query function each hook registers for its key
queryFn(k) ==
  IF k \in ListKeys \cup PatientKeys
    THEN transformPaginatedResponse(serverPage(limitOf(k)))
  ELSE IF k = DoctorsKey THEN transformPaginatedResponse(doctorsPage)
  ELSE transformAppointment(Val(srv[k[3]]))

(* ========================= query cache (library) ====================== *)
\* state of one query: its data, the invalidation mark, the number of live
\* fetches (fetchStatus), mounted hooks, and the retry bookkeeping; the
\* error a query surfaced is its fetchFailureReason once no fetch is live
EmptyQuery ==
  [data |-> None, isInvalidated |-> FALSE, fetching |-> 0, observers |-> 0,
   fetchFailureCount |-> 0, fetchFailureReason |-> None, calls |-> 0]

\* a fetch begins: the fetcher is invoked once
startFetch(q) ==
  [q EXCEPT !.fetching = 1, !.calls = 1, !.fetchFailureCount = 0,
            !.fetchFailureReason = None]

\* queryClient.setQueryData(key, value); an undefined value is ignored
setQueryData(c, k, value) ==
  IF ~IsSome(value) THEN c
  ELSE [c EXCEPT ![k].data = value, ![k].isInvalidated = FALSE]

\* queryClient.cancelQueries({queryKey: prefix}): live fetches are dropped,
\* their results ignored
cancelQueries(c, prefix) ==
  [k \in DOMAIN c |->
     IF Matches(prefix, k) /\ c[k].fetching > 0
       THEN [c[k] EXCEPT !.fetching = 0, !.calls = 0, !.fetchFailureCount = 0,
                         !.fetchFailureReason = None]
       ELSE c[k]]

\* a query is in the cache once it has data or a mounted hook
Exists(q) == IsSome(q.data) \/ q.observers > 0

\* an invalidation that marks every cached query, whatever its key
invalidateQueriesAll(c, prefix) ==
  [k \in DOMAIN c |->
     IF Exists(c[k]) THEN [c[k] EXCEPT !.isInvalidated = TRUE] ELSE c[k]]

\* queryClient.invalidateQueries({queryKey: prefix}): mark every matching
\* query, then refetch the ones with a mounted hook; a refetch replaces a
\* live fetch of a query that has data and joins the live fetch otherwise
invalidateQueries(c, prefix) ==
  [k \in DOMAIN c |->
     IF Matches(prefix, k) /\ Exists(c[k])
       THEN LET marked == [c[k] EXCEPT !.isInvalidated = TRUE]
            IN IF marked.observers = 0 THEN marked
               ELSE IF marked.fetching > 0 /\ ~IsSome(marked.data) THEN marked
               ELSE startFetch(marked)
       ELSE c[k]]

\* cacheUtils.invalidatePatientAppointments / invalidateDoctorAppointments /
\* invalidateAppointments
invalidatePatientAppointments(c) == invalidateQueries(c, <<"appointments", "patient">>)
invalidateDoctorAppointments(c) == invalidateQueries(c, <<"appointments", "doctor">>)
invalidateAppointments(c) == invalidateQueries(c, <<"appointments">>)

\* a mount that always starts a fetch of its own
MountQueryOwnFetch(q, elapsed) ==
  [q EXCEPT !.observers = @ + 1, !.fetching = @ + 1, !.calls = @ + 1]

\* usePatientAppointments / useDoctorAppointments / useAppointment mounts:
\* the hook subscribes; it starts a fetch only when none is live and the
\* entry has no data, is invalidated, or its staleTime has elapsed
MountQuery(q, elapsed) ==
  LET sub == [q EXCEPT !.observers = @ + 1]
  IN IF sub.fetching = 0 /\ (~IsSome(sub.data) \/ sub.isInvalidated \/ elapsed)
       THEN startFetch(sub)
       ELSE sub

Mount(k) ==
  /\ cache[k].observers < MaxObservers
  /\ \E elapsed \in BOOLEAN :
       cache' = [cache EXCEPT ![k] = MountQuery(cache[k], elapsed)]
  /\ UNCHANGED <<now, srv, mut, cm>>
  /\ UNCHANGED <<authVars, sessionVars, uiVars, callVars>>

\* the component using the hook unmounts; a live fetch goes on
Unmount(k) ==
  /\ cache[k].observers > 0
  /\ cache' = [cache EXCEPT ![k].observers = @ - 1]
  /\ UNCHANGED <<now, srv, mut, cm>>
  /\ UNCHANGED <<authVars, sessionVars, uiVars, callVars>>

\* the fetcher resolves: the entry takes the normalised server value
FetchSucceed(k) ==
  /\ cache[k].fetching > 0
  /\ cache' = [cache EXCEPT ![k] =
       [@ EXCEPT !.data = Some(queryFn(k)), !.isInvalidated = FALSE,
                 !.fetching = @ - 1, !.fetchFailureCount = 0,
                 !.fetchFailureReason = None]]
  /\ UNCHANGED <<now, srv, mut, cm>>
  /\ UNCHANGED <<authVars, sessionVars, uiVars, callVars>>

\* the fetcher fails and the retry policy grants another attempt: after the
\* backoff the fetcher is invoked again
FetchRetry(k, e) ==
  /\ cache[k].fetching > 0
  /\ queryRetry(cache[k].fetchFailureCount, e)
  /\ cache' = [cache EXCEPT ![k] =
       [@ EXCEPT !.fetchFailureCount = @ + 1, !.fetchFailureReason = Some(e),
                 !.calls = @ + 1]]
  /\ UNCHANGED <<now, srv, mut, cm>>
  /\ transport401(e)
  /\ UNCHANGED <<storeVars, last, cu, uiVars, callVars>>

\* the fetcher fails and the retry policy refuses: the error is surfaced,
\* the previous data stays
FetchError(k, e) ==
  /\ cache[k].fetching > 0
  /\ ~queryRetry(cache[k].fetchFailureCount, e)
  /\ cache' = [cache EXCEPT ![k] =
       [@ EXCEPT !.fetching = @ - 1, !.fetchFailureCount = @ + 1,
                 !.fetchFailureReason = Some(e)]]
  /\ UNCHANGED <<now, srv, mut, cm>>
  /\ transport401(e)
  /\ UNCHANGED <<storeVars, last, cu, uiVars, callVars>>

\* cacheUtils.invalidateAppointments(client), called by the UI
InvalidateAppointments ==
  /\ cache' = invalidateAppointments(cache)
  /\ UNCHANGED <<now, srv, mut, cm>>
  /\ UNCHANGED <<authVars, sessionVars, uiVars, callVars>>

\* cacheUtils.invalidatePatientAppointments(client) / invalidateDoctorAppointments(client)
InvalidatePatientAppointments ==
  /\ cache' = invalidatePatientAppointments(cache)
  /\ UNCHANGED <<now, srv, mut, cm>>
  /\ UNCHANGED <<authVars, sessionVars, uiVars, callVars>>

InvalidateDoctorAppointments ==
  /\ cache' = invalidateDoctorAppointments(cache)
  /\ UNCHANGED <<now, srv, mut, cm>>
  /\ UNCHANGED <<authVars, sessionVars, uiVars, callVars>>

(* ================= updateAppointmentStatus (hook) ===================== *)
\* queryClient.getQueriesData({queryKey: prefix}): [key, data] of every
\* matching query in the cache
getQueriesData(c, prefix) ==
  [k \in {x \in DOMAIN c : Matches(prefix, x) /\ Exists(c[x])} |-> c[k].data]

\* setQueryData over a list of [key, data] pairs (distinct keys)
setQueriesData(c, pairs) ==
  [k \in DOMAIN c |->
     IF k \in DOMAIN pairs THEN setQueryData(c, k, pairs[k])[k] ELSE c[k]]

\* a mapper that leaves the appointment as it is
optimisticAppointmentUnchanged(appointment, appointment_id, status, t) == appointment

\* a mapper that rewrites every appointment, whatever its id
optimisticAppointmentAll(appointment, appointment_id, status, t) ==
  [appointment EXCEPT
     !.status = IF status = "COMPLETE" THEN "COMPLETED" ELSE "CANCELLED",
     !.updatedAt = t]

\* onMutate's mapper `updateAppointmentStatus`; `t` is new Date()
optimisticAppointment(appointment, appointment_id, status, t) ==
  IF appointment.id = appointment_id
    THEN [appointment EXCEPT
            !.status = IF status = "COMPLETE" THEN "COMPLETED" ELSE "CANCELLED",
            !.updatedAt = t]
    ELSE appointment

\* paginatedData with data.map(updateAppointmentStatus)
optimisticList(paginatedData, appointment_id, status, t) ==
  [paginatedData EXCEPT !.data =
     [i \in 1..Len(paginatedData.data) |->
        optimisticAppointment(paginatedData.data[i], appointment_id, status, t)]]

\* the optimistic value written for each snapshot pair that has data
optimisticPairs(previous, appointment_id, status, t) ==
  [k \in DOMAIN previous |->
     IF IsSome(previous[k])
       THEN Some(optimisticList(Val(previous[k]), appointment_id, status, t))
       ELSE None]

\* a rewrite that takes its snapshot only after the optimistic writes
rewriteOptimisticallyLateSnapshot(c0, appointment_id, status, t) ==
  LET c1 == setQueriesData(c0,
              optimisticPairs(getQueriesData(c0, <<"appointments", "patient">>),
                              appointment_id, status, t))
      c2 == setQueriesData(c1,
              optimisticPairs(getQueriesData(c1, <<"appointments", "doctor">>),
                              appointment_id, status, t))
      existingAppointment == c2[DetailKey(appointment_id)].data
      c3 == IF IsSome(existingAppointment)
              THEN setQueryData(c2, DetailKey(appointment_id),
                     Some(optimisticAppointment(Val(existingAppointment),
                                                appointment_id, status, t)))
              ELSE c2
  IN [cache |-> c3,
      context |-> [previousPatientAppointments |->
                     getQueriesData(c3, <<"appointments", "patient">>),
                   previousDoctorAppointments |->
                     getQueriesData(c3, <<"appointments", "doctor">>),
                   previousAppointment |-> c3[DetailKey(appointment_id)].data]]

\* useUpdateAppointmentStatus.onMutate after `await cancelQueries`: the
\* snapshot, the rewrite and the context for rollback, in one task
rewriteOptimistically(c0, appointment_id, status, t) ==
  LET previousPatientAppointments == getQueriesData(c0, <<"appointments", "patient">>)
      previousDoctorAppointments == getQueriesData(c0, <<"appointments", "doctor">>)
      c1 == setQueriesData(c0,
              optimisticPairs(previousPatientAppointments, appointment_id, status, t))
      c2 == setQueriesData(c1,
              optimisticPairs(previousDoctorAppointments, appointment_id, status, t))
      existingAppointment == c2[DetailKey(appointment_id)].data
      c3 == IF IsSome(existingAppointment)
              THEN setQueryData(c2, DetailKey(appointment_id),
                     Some(optimisticAppointment(Val(existingAppointment),
                                                appointment_id, status, t)))
              ELSE c2
  IN [cache |-> c3,
      context |-> [previousPatientAppointments |-> previousPatientAppointments,
                   previousDoctorAppointments |-> previousDoctorAppointments,
                   previousAppointment |-> existingAppointment]]

\* useUpdateAppointmentStatus.onMutate: cancel the outgoing refetches,
\* snapshot, rewrite, and return the context for rollback
onMutate(c, appointment_id, status, t) ==
  rewriteOptimistically(cancelQueries(c, <<"appointments">>), appointment_id, status, t)

\* an onSuccess that only invalidates the lists
onSuccessInvalidateOnly(c, updatedAppointment, appointment_id) ==
  invalidateDoctorAppointments(invalidatePatientAppointments(c))

\* useUpdateAppointmentStatus.onSuccess
onSuccess(c, updatedAppointment, appointment_id) ==
  LET c1 == setQueryData(c, DetailKey(appointment_id), Some(updatedAppointment))
      c2 == invalidatePatientAppointments(c1)
  IN invalidateDoctorAppointments(c2)

\* a rollback that forgets the doctor lists
onErrorPatientOnly(c, context, appointment_id) ==
  LET c1 == setQueriesData(c, context.previousPatientAppointments)
  IN IF IsSome(context.previousAppointment)
       THEN setQueryData(c1, DetailKey(appointment_id), context.previousAppointment)
       ELSE c1

\* useUpdateAppointmentStatus.onError: rollback from the context
onError(c, context, appointment_id) ==
  LET c1 == setQueriesData(c, context.previousPatientAppointments)
      c2 == setQueriesData(c1, context.previousDoctorAppointments)
  IN IF IsSome(context.previousAppointment)
       THEN setQueryData(c2, DetailKey(appointment_id), context.previousAppointment)
       ELSE c2

\* the updateAppointmentStatus mutations of one run
Mutations == {1, 2}

NoContext ==
  [previousPatientAppointments |-> <<>>, previousDoctorAppointments |-> <<>>,
   previousAppointment |-> None]

IdleMutation ==
  [pc |-> "idle", appointment_id |-> 0, status |-> "", calls |-> 0,
   failureCount |-> 0, failureReason |-> None, context |-> NoContext,
   data |-> None, error |-> None]

\* mutate({appointment_id, status}): onMutate runs to its end and the
\* library then invokes mutationFn (the first backend call) in the same task
Mutate(m, id, status) ==
  /\ mut[m].pc = "idle"
  /\ \A j \in Mutations : j < m => mut[j].pc # "idle"
  /\ LET r == onMutate(cache, id, status, now)
     IN /\ cache' = r.cache
        /\ mut' = [mut EXCEPT ![m] =
             [IdleMutation EXCEPT !.pc = "pending", !.appointment_id = id,
                                  !.status = status, !.calls = 1,
                                  !.context = r.context]]
  /\ UNCHANGED <<now, srv, cm>>
  /\ UNCHANGED <<authVars, sessionVars, uiVars, callVars>>

\* mutate({appointment_id, status}) up to onMutate's `await cancelQueries`:
\* the outgoing refetches are cancelled and onMutate is suspended
MutateBegin(m, id, status) ==
  /\ mut[m].pc = "idle"
  /\ \A j \in Mutations : j < m => mut[j].pc # "idle"
  /\ cache' = cancelQueries(cache, <<"appointments">>)
  /\ mut' = [mut EXCEPT ![m] =
       [IdleMutation EXCEPT !.pc = "onMutate", !.appointment_id = id,
                            !.status = status]]
  /\ UNCHANGED <<now, srv, cm>>
  /\ UNCHANGED <<authVars, sessionVars, uiVars, callVars>>

\* onMutate resumes: snapshot, rewrite, context; the library then invokes
\* mutationFn (the first backend call)
MutateRewrite(m) ==
  /\ mut[m].pc = "onMutate"
  /\ LET r == rewriteOptimistically(cache, mut[m].appointment_id, mut[m].status, now)
     IN /\ cache' = r.cache
        /\ mut' = [mut EXCEPT ![m].pc = "pending", ![m].calls = 1,
                              ![m].context = r.context]
  /\ UNCHANGED <<now, srv, cm>>
  /\ UNCHANGED <<authVars, sessionVars, uiVars, callVars>>

\* the backend call fails and the mutation retry policy grants another
\* attempt: after the delay mutationFn is invoked again
MutateRetry(m, e) ==
  /\ mut[m].pc = "pending"
  /\ mutationRetry(mut[m].failureCount, e)
  /\ mut' = [mut EXCEPT ![m].failureCount = @ + 1, ![m].failureReason = Some(e),
                        ![m].calls = @ + 1]
  /\ UNCHANGED <<now, srv, cache, cm>>
  /\ transport401(e)
  /\ UNCHANGED <<storeVars, last, cu, uiVars, callVars>>

\* the backend call fails for good: onError rolls back, then the promise
\* rejects with the failure
MutateError(m, e) ==
  /\ mut[m].pc = "pending"
  /\ ~mutationRetry(mut[m].failureCount, e)
  /\ cache' = onError(cache, mut[m].context, mut[m].appointment_id)
  /\ mut' = [mut EXCEPT ![m].pc = "error", ![m].failureCount = @ + 1,
                        ![m].failureReason = Some(e), ![m].error = Some(e)]
  /\ UNCHANGED <<now, srv, cm>>
  /\ transport401(e)
  /\ UNCHANGED <<storeVars, last, cu, uiVars, callVars>>

\* PATCH /appointments/update-status as the backend applies it: a PENDING
\* appointment takes the requested status and a new updatedAt
serverUpdate(raw, status, t) ==
  [raw EXCEPT !.status = IF status = "COMPLETE" THEN "COMPLETED" ELSE "CANCELLED",
              !.updatedAt = t]

\* the backend call succeeds: the service normalises the response and
\* onSuccess reconciles the cache
MutateSuccess(m) ==
  LET id == mut[m].appointment_id
      raw == serverUpdate(Val(srv[id]), mut[m].status, now)
      updatedAppointment == transformAppointment(raw)
  IN /\ mut[m].pc = "pending"
     /\ Val(srv[id]).status = "PENDING"
     /\ srv' = [srv EXCEPT ![id] = Some(raw)]
     /\ cache' = onSuccess(cache, updatedAppointment, id)
     /\ mut' = [mut EXCEPT ![m].pc = "success", ![m].data = Some(updatedAppointment)]
     /\ UNCHANGED <<now, cm>>
     /\ UNCHANGED <<authVars, sessionVars, uiVars, callVars>>

(* ===================== createAppointment (hook) ======================= *)
\* useCreateAppointment.onSuccess
createOnSuccess(c, newAppointment) ==
  LET c1 == invalidatePatientAppointments(c)
      c2 == invalidateDoctorAppointments(c1)
      patientAppointmentQueries == getQueriesData(c2, <<"appointments", "patient">>)
      added == [k \in DOMAIN patientAppointmentQueries |->
                  IF IsSome(patientAppointmentQueries[k])
                    THEN LET paginatedData == Val(patientAppointmentQueries[k])
                         IN Some([paginatedData EXCEPT
                                    !.data = <<newAppointment>> \o @,
                                    !.pagination.total = Plus(@, 1)])
                    ELSE None]
  IN setQueriesData(c2, added)

IdleCreate == [pc |-> "idle", calls |-> 0, failureCount |-> 0, failureReason |-> None]

\* mutate(appointmentData): no onMutate; mutationFn is invoked
CreateAppointment ==
  /\ cm.pc = "idle"
  /\ cm' = [IdleCreate EXCEPT !.pc = "pending", !.calls = 1]
  /\ UNCHANGED <<now, srv, cache, mut>>
  /\ UNCHANGED <<authVars, sessionVars, uiVars, callVars>>

CreateRetry(e) ==
  /\ cm.pc = "pending"
  /\ mutationRetry(cm.failureCount, e)
  /\ cm' = [cm EXCEPT !.failureCount = @ + 1, !.failureReason = Some(e),
                      !.calls = @ + 1]
  /\ UNCHANGED <<now, srv, cache, mut>>
  /\ transport401(e)
  /\ UNCHANGED <<storeVars, last, cu, uiVars, callVars>>

\* onError only logs
CreateError(e) ==
  /\ cm.pc = "pending"
  /\ ~mutationRetry(cm.failureCount, e)
  /\ cm' = [cm EXCEPT !.pc = "error", !.failureCount = @ + 1,
                      !.failureReason = Some(e)]
  /\ UNCHANGED <<now, srv, cache, mut>>
  /\ transport401(e)
  /\ UNCHANGED <<storeVars, last, cu, uiVars, callVars>>

\* POST /appointments succeeds and nothing happens between the backend
\* storing the PENDING appointment and the client handling the reply
CreateSuccess ==
  LET raw == [id |-> CreatedId, status |-> "PENDING", updatedAt |-> now]
  IN /\ cm.pc = "pending"
     /\ srv' = [srv EXCEPT ![CreatedId] = Some(raw)]
     /\ cache' = createOnSuccess(cache, transformAppointment(raw))
     /\ cm' = [cm EXCEPT !.pc = "success"]
     /\ UNCHANGED <<now, mut>>
     /\ UNCHANGED <<authVars, sessionVars, uiVars, callVars>>

\* POST /appointments is processed: the backend stores a PENDING
\* appointment; its reply is on the way to the client
CreateCommit ==
  /\ cm.pc = "pending"
  /\ srv' = [srv EXCEPT ![CreatedId] =
               Some([id |-> CreatedId, status |-> "PENDING", updatedAt |-> now])]
  /\ cm' = [cm EXCEPT !.pc = "committed"]
  /\ UNCHANGED <<now, cache, mut>>
  /\ UNCHANGED <<authVars, sessionVars, uiVars, callVars>>

\* the reply arrives: createAppointment resolves and onSuccess runs
CreateReply ==
  /\ cm.pc = "committed"
  /\ cache' = createOnSuccess(cache, transformAppointment(Val(srv[CreatedId])))
  /\ cm' = [cm EXCEPT !.pc = "success"]
  /\ UNCHANGED <<now, srv, mut>>
  /\ UNCHANGED <<authVars, sessionVars, uiVars, callVars>>

\* time passes
Tick ==
  /\ now < MaxTime
  /\ now' = now + 1
  /\ UNCHANGED <<srv, cache, mut, cm>>
  /\ UNCHANGED <<authVars, sessionVars, uiVars, callVars>>

(* =========================== session store ============================ *)
Users == {"u1", "u2"}
Tokens == {"t1", "t2"}
AuthCalls == 1..MaxAuthCalls
AuthKinds == {"login", "registerPatient", "registerDoctor"}

\* the fallback message of each action's catch block
defaultMessage(kind) ==
  IF kind = "login" THEN "Login failed"
  ELSE IF kind = "registerPatient" THEN "Patient registration failed"
  ELSE "Doctor registration failed"

\* error instanceof Error ? error.message : <fallback>
errorMessage(e, kind) == IF e.isError THEN e.message ELSE defaultMessage(kind)

\* a TypeError raised inside the service on a reply without data.user
MalformedReply ==
  [isError |-> TRUE, message |-> "Cannot read properties of undefined",
   status |-> None, response |-> None]

\* a call that is not running; a settled call keeps nothing of its arguments
IdleCall == [pc |-> "idle", kind |-> ""]

\* the last operation: its name, the value it threw to its caller, the
\* Authorization header of the request it sent
Op(name, rejected, authorization) ==
  [name |-> name, rejected |-> rejected, authorization |-> authorization]

\* apiClient request interceptor: the bearer token is read from the legacy
\* key auth_token; no header when the key is absent
requestInterceptor(stored) == IF stored # "null" THEN Some(stored) ELSE None

\* login / registerPatient / registerDoctor up to the await: the request
\* leaves through the request interceptor
AuthStart(c, kind) ==
  /\ authCall[c].pc = "idle"
  /\ \A j \in AuthCalls : j < c => authCall[j].pc # "idle"
  /\ isLoading' = TRUE
  /\ error' = "null"
  /\ authCall' = [authCall EXCEPT ![c] = [IdleCall EXCEPT !.pc = "inflight", !.kind = kind]]
  /\ last' = Op(kind, None, requestInterceptor(lsToken))
  /\ UNCHANGED <<user, token, isAuthenticated, lsToken, lsUser, cu, redirected>>
  /\ UNCHANGED <<cacheVars, uiVars, callVars>>

\* a success branch that does not write the legacy user key
AuthResolveNoLegacyUser(c, u, t) ==
  /\ authCall[c].pc = "inflight"
  /\ lsToken' = t
  /\ UNCHANGED lsUser
  /\ user' = u
  /\ token' = t
  /\ isAuthenticated' = TRUE
  /\ isLoading' = FALSE
  /\ error' = "null"
  /\ authCall' = [authCall EXCEPT ![c] = [IdleCall EXCEPT !.pc = "done"]]
  /\ last' = Op("resolved", None, None)
  /\ UNCHANGED <<cu, redirected>>
  /\ UNCHANGED <<cacheVars, uiVars, callVars>>

\* the service resolves with {user, token}
AuthResolve(c, u, t) ==
  /\ authCall[c].pc = "inflight"
  /\ lsToken' = t
  /\ lsUser' = u
  /\ user' = u
  /\ token' = t
  /\ isAuthenticated' = TRUE
  /\ isLoading' = FALSE
  /\ error' = "null"
  /\ authCall' = [authCall EXCEPT ![c] = [IdleCall EXCEPT !.pc = "done"]]
  /\ last' = Op("resolved", None, None)
  /\ UNCHANGED <<cu, redirected>>
  /\ UNCHANGED <<cacheVars, uiVars, callVars>>

\* a catch block that leaves the loading flag as it is
authCatchStillLoading(c, e) ==
  /\ user' = "null"
  /\ token' = "null"
  /\ isAuthenticated' = FALSE
  /\ UNCHANGED isLoading
  /\ error' = errorMessage(e, authCall[c].kind)
  /\ authCall' = [authCall EXCEPT ![c] = [IdleCall EXCEPT !.pc = "done"]]
  /\ last' = Op("rejected", Some(e), None)

\* a catch block that keeps the user
authCatchKeepsUser(c, e) ==
  /\ UNCHANGED user
  /\ token' = "null"
  /\ isAuthenticated' = FALSE
  /\ isLoading' = FALSE
  /\ error' = errorMessage(e, authCall[c].kind)
  /\ authCall' = [authCall EXCEPT ![c] = [IdleCall EXCEPT !.pc = "done"]]
  /\ last' = Op("rejected", Some(e), None)

\* the catch block, for a thrown value e, which it rethrows
authCatch(c, e) ==
  /\ user' = "null"
  /\ token' = "null"
  /\ isAuthenticated' = FALSE
  /\ isLoading' = FALSE
  /\ error' = errorMessage(e, authCall[c].kind)
  /\ authCall' = [authCall EXCEPT ![c] = [IdleCall EXCEPT !.pc = "done"]]
  /\ last' = Op("rejected", Some(e), None)

\* the request fails in the transport client; on a 401 its interceptor has
\* removed the legacy keys and signalled the redirect before the service throws
AuthReject(c, err) ==
  /\ authCall[c].pc = "inflight"
  /\ authCatch(c, makeApiRequestThrows(err))
  /\ transport401(makeApiRequestThrows(err))
  /\ UNCHANGED cu
  /\ UNCHANGED <<cacheVars, uiVars, callVars>>

\* the reply arrives but the service throws on its shape
AuthRejectMalformed(c) ==
  /\ authCall[c].pc = "inflight"
  /\ authCatch(c, MalformedReply)
  /\ UNCHANGED <<lsToken, lsUser, cu, redirected>>
  /\ UNCHANGED <<cacheVars, uiVars, callVars>>

\* a logout that also empties the UI store's notification list
LogoutClearsNotifications ==
  /\ lsToken' = "null"
  /\ lsUser' = "null"
  /\ user' = "null"
  /\ token' = "null"
  /\ isAuthenticated' = FALSE
  /\ isLoading' = FALSE
  /\ error' = "null"
  /\ last' = Op("logout", None, None)
  /\ notifications' = <<>>
  /\ UNCHANGED <<authCall, cu, redirected>>
  /\ UNCHANGED <<cacheVars, uiIsLoading, modals, timers, issued, callVars>>

\* a logout that leaves the legacy token key in place
LogoutKeepsLegacyToken ==
  /\ UNCHANGED lsToken
  /\ lsUser' = "null"
  /\ user' = "null"
  /\ token' = "null"
  /\ isAuthenticated' = FALSE
  /\ isLoading' = FALSE
  /\ error' = "null"
  /\ last' = Op("logout", None, None)
  /\ UNCHANGED <<authCall, cu, redirected>>
  /\ UNCHANGED <<cacheVars, uiVars, callVars>>

Logout ==
  /\ lsToken' = "null"
  /\ lsUser' = "null"
  /\ user' = "null"
  /\ token' = "null"
  /\ isAuthenticated' = FALSE
  /\ isLoading' = FALSE
  /\ error' = "null"
  /\ last' = Op("logout", None, None)
  /\ UNCHANGED <<authCall, cu, redirected>>
  /\ UNCHANGED <<cacheVars, uiVars, callVars>>

SetUser(u) ==
  /\ lsUser' = u
  /\ user' = u
  /\ last' = Op("setUser", None, None)
  /\ UNCHANGED <<token, isAuthenticated, isLoading, error, lsToken, authCall, cu, redirected>>
  /\ UNCHANGED <<cacheVars, uiVars, callVars>>

SetToken(t) ==
  /\ lsToken' = t
  /\ token' = t
  /\ isAuthenticated' = TRUE
  /\ last' = Op("setToken", None, None)
  /\ UNCHANGED <<user, isLoading, error, lsUser, authCall, cu, redirected>>
  /\ UNCHANGED <<cacheVars, uiVars, callVars>>

ClearError ==
  /\ error' = "null"
  /\ last' = Op("clearError", None, None)
  /\ UNCHANGED <<user, token, isAuthenticated, isLoading, lsToken, lsUser, authCall,
                 cu, redirected>>
  /\ UNCHANGED <<cacheVars, uiVars, callVars>>

\* an initialize that is content with the token alone
InitializeTokenOnly ==
  /\ IF lsToken # "null"
       THEN user' = lsUser /\ token' = lsToken /\ isAuthenticated' = TRUE
       ELSE user' = "null" /\ token' = "null" /\ isAuthenticated' = FALSE
  /\ isLoading' = FALSE
  /\ error' = "null"
  /\ last' = Op("initialize", None, None)
  /\ UNCHANGED <<lsToken, lsUser, authCall, cu, redirected>>
  /\ UNCHANGED <<cacheVars, uiVars, callVars>>

\* initialize: the session is read back from the legacy keys
Initialize ==
  /\ IF lsToken # "null" /\ lsUser # "null"
       THEN user' = lsUser /\ token' = lsToken /\ isAuthenticated' = TRUE
       ELSE user' = "null" /\ token' = "null" /\ isAuthenticated' = FALSE
  /\ isLoading' = FALSE
  /\ error' = "null"
  /\ last' = Op("initialize", None, None)
  /\ UNCHANGED <<lsToken, lsUser, authCall, cu, redirected>>
  /\ UNCHANGED <<cacheVars, uiVars, callVars>>

\* persist/partialize: the subset of the store written to 'auth-storage' on
\* every set()
persisted == [user |-> user, token |-> token, isAuthenticated |-> isAuthenticated]

(* ============================ auth hooks ============================== *)
\* queryClient.clear(): every query is removed from the cache
clear(c) == [k \in DOMAIN c |-> EmptyQuery]

\* useLogin / useRegisterPatient / useRegisterDoctor: the service resolves
\* and onSuccess writes the legacy keys, seeds the current-user entry and
\* invalidates every query; the session store is not involved
UseLoginSuccess(u, t) ==
  /\ lsToken' = t
  /\ lsUser' = u
  /\ cu' = Some(u)
  /\ cache' = invalidateQueries(cache, <<>>)
  /\ last' = Op("useLogin", None, requestInterceptor(lsToken))
  /\ UNCHANGED <<now, srv, mut, cm, redirected>>
  /\ UNCHANGED <<storeVars, uiVars, callVars>>

\* useLogin: the service fails for good and onError removes the legacy keys
\* and the auth queries
UseLoginError(err) ==
  /\ lsToken' = "null"
  /\ lsUser' = "null"
  /\ redirected' = (redirected \/ makeApiRequestThrows(err).status = Some(401))
  /\ cu' = None
  /\ last' = Op("useLoginError", Some(makeApiRequestThrows(err)), requestInterceptor(lsToken))
  /\ UNCHANGED <<cacheVars, storeVars, uiVars, callVars>>

\* useLogout: the legacy keys are removed, the cache is cleared
UseLogout ==
  /\ lsToken' = "null"
  /\ lsUser' = "null"
  /\ cache' = clear(cache)
  /\ cu' = None
  /\ last' = Op("useLogout", None, None)
  /\ UNCHANGED <<now, srv, mut, cm, redirected>>
  /\ UNCHANGED <<storeVars, uiVars, callVars>>

\* useCurrentUser: the cached user, else the stored user, which it caches
UseCurrentUser ==
  /\ ~IsSome(cu)
  /\ lsUser # "null"
  /\ cu' = Some(lsUser)
  /\ UNCHANGED <<lsToken, lsUser, last, redirected>>
  /\ UNCHANGED <<cacheVars, storeVars, uiVars, callVars>>

\* useIsAuthenticated: !!(user && token), user from useCurrentUser and token
\* from the legacy key
useIsAuthenticated == (IsSome(cu) \/ lsUser # "null") /\ lsToken # "null"

(* ============================= UI store =============================== *)
\* durations a caller passes to addNotification: none, 0, two seconds
GivenDurations == {None, Some(0), Some(2000)}
\* amounts by which the simulated clock is advanced
ClockSteps == {1000, 2000, 3000}

\* notification.duration !== undefined ? notification.duration : 5000
effectiveDuration(duration) ==
  IF IsSome(duration) THEN Val(duration) ELSE DefaultDuration

\* values Math.random() returns
RandomDraws == 1..MaxNotifications

\* generateId(): Date.now().toString(36) + Math.random().toString(36).substr(2),
\* the digits of the time t followed by the digits of the draw r
generateId(t, r) == <<t, r>>

\* state.notifications.filter(notification => notification.id # id), for a
\* set of ids
withoutIds(list, ids) == SelectSeq(list, LAMBDA n : n.id \notin ids)

IdsOf(list) == {list[i].id : i \in 1..Len(list)}

\* the explicit removals recorded in the history
markRemoved(log, ids) ==
  {[n EXCEPT !.removed = @ \/ n.id \in ids] : n \in log}

\* addNotification: the notification is appended and, when its duration is
\* positive, its removal is scheduled
addNotification(r, duration) ==
  LET newNotification == [id |-> generateId(now, r),
                          duration |-> effectiveDuration(duration)]
  IN /\ Cardinality(issued) < MaxNotifications
     /\ notifications' = Append(notifications, newNotification)
     /\ timers' = IF newNotification.duration > 0
                    THEN timers \cup {[id |-> newNotification.id,
                                       due |-> now + newNotification.duration]}
                    ELSE timers
     /\ issued' = issued \cup {[id |-> newNotification.id, given |-> duration,
                                at |-> now, removed |-> FALSE,
                                nth |-> Cardinality(issued) + 1]}
     /\ UNCHANGED <<uiIsLoading, modals>>
     /\ UNCHANGED <<cacheVars, authVars, sessionVars, callVars>>

\* a removal that drops the oldest notification, whatever its id
removeNotificationOldest(id) ==
  /\ notifications' = IF notifications = <<>> THEN <<>> ELSE Tail(notifications)
  /\ issued' = markRemoved(issued, {id} \cap IdsOf(notifications))
  /\ UNCHANGED <<uiIsLoading, modals, timers>>
  /\ UNCHANGED <<cacheVars, authVars, sessionVars, callVars>>

\* removeNotification(id), called by the application
removeNotification(id) ==
  /\ notifications' = withoutIds(notifications, {id})
  /\ issued' = markRemoved(issued, {id} \cap IdsOf(notifications))
  /\ UNCHANGED <<uiIsLoading, modals, timers>>
  /\ UNCHANGED <<cacheVars, authVars, sessionVars, callVars>>

clearNotifications ==
  /\ notifications' = <<>>
  /\ issued' = markRemoved(issued, IdsOf(notifications))
  /\ UNCHANGED <<uiIsLoading, modals, timers>>
  /\ UNCHANGED <<cacheVars, authVars, sessionVars, callVars>>

\* setLoading(loading)
setLoading(loading) ==
  /\ uiIsLoading' = loading
  /\ UNCHANGED <<modals, notifications, timers, issued>>
  /\ UNCHANGED <<cacheVars, authVars, sessionVars, callVars>>

\* modal names: the two the store starts with and one it does not know
ModalNames == {"appointmentBooking", "statusUpdate", "confirm"}

\* {...state.modals, [modal]: value}
withModal(m, modal, value) ==
  [k \in DOMAIN m \cup {modal} |-> IF k = modal THEN value ELSE m[k]]

openModal(modal) ==
  /\ modals' = withModal(modals, modal, TRUE)
  /\ UNCHANGED <<uiIsLoading, notifications, timers, issued>>
  /\ UNCHANGED <<cacheVars, authVars, sessionVars, callVars>>

closeModal(modal) ==
  /\ modals' = withModal(modals, modal, FALSE)
  /\ UNCHANGED <<uiIsLoading, notifications, timers, issued>>
  /\ UNCHANGED <<cacheVars, authVars, sessionVars, callVars>>

\* !state.modals[modal]: a name the store does not hold counts as closed
toggleModal(modal) ==
  /\ modals' = withModal(modals, modal,
                         IF modal \in DOMAIN modals THEN ~modals[modal] ELSE TRUE)
  /\ UNCHANGED <<uiIsLoading, notifications, timers, issued>>
  /\ UNCHANGED <<cacheVars, authVars, sessionVars, callVars>>

closeAllModals ==
  /\ modals' = [k \in DOMAIN modals |-> FALSE]
  /\ UNCHANGED <<uiIsLoading, notifications, timers, issued>>
  /\ UNCHANGED <<cacheVars, authVars, sessionVars, callVars>>

\* timers that fire only after their delay has been exceeded
dueTimersLate(ts, t) == {x \in ts : x.due < t}

\* the setTimeout callbacks whose delay has elapsed at time t
dueTimers(ts, t) == {x \in ts : x.due <= t}

\* the simulated clock advances by d; the callbacks that are due run, each
\* calling removeNotification(id)
AdvanceTimers(d) ==
  /\ now + d <= MaxClock
  /\ now' = now + d
  /\ notifications' = withoutIds(notifications, {x.id : x \in dueTimers(timers, now + d)})
  /\ timers' = timers \ dueTimers(timers, now + d)
  /\ UNCHANGED <<uiIsLoading, modals, issued>>
  /\ UNCHANGED <<srv, cache, mut, cm>>
  /\ UNCHANGED <<authVars, sessionVars, callVars>>

(* ========================== specifications ============================ *)
InitBackend ==
  /\ now = 0
  /\ srv = [id \in AllIds |->
              IF id \in InitialIds
                THEN Some([id |-> id, status |-> "PENDING", updatedAt |-> 0])
                ELSE None]

InitCache ==
  /\ cache = [k \in Keys |-> EmptyQuery]
  /\ mut = [m \in Mutations |-> IdleMutation]
  /\ cm = IdleCreate

InitAuth ==
  /\ user = "null"
  /\ token = "null"
  /\ isAuthenticated = FALSE
  /\ isLoading = FALSE
  /\ error = "null"
  /\ lsToken = "null"
  /\ lsUser = "null"
  /\ authCall = [c \in AuthCalls |-> IdleCall]
  /\ last = Op("", None, None)
  /\ cu = None
  /\ redirected = FALSE

InitUi ==
  /\ uiIsLoading = FALSE
  /\ modals = [k \in {"appointmentBooking", "statusUpdate"} |-> FALSE]
  /\ notifications = <<>>
  /\ timers = {}
  /\ issued = {}

\* no key factory or transformer has been called on its own
InitCalls ==
  /\ input = None
  /\ output = None

Init == InitBackend /\ InitCache /\ InitAuth /\ InitUi /\ InitCalls

\* the same start with the further hooks' keys in the cache's reach
InitCacheWide ==
  /\ cache = [k \in WideKeys |-> EmptyQuery]
  /\ mut = [m \in Mutations |-> IdleMutation]
  /\ cm = IdleCreate

InitWide == InitBackend /\ InitCacheWide /\ InitAuth /\ InitUi /\ InitCalls

\* the first hook for a key mounts
MountFirst(k) == cache[k].observers = 0 /\ Mount(k)

\* the failure of a backend call as the cache handlers see it (they do not
\* inspect the error)
ConnectionLost == makeApiRequestThrows([response |-> None])

\* one updateAppointmentStatus mutation among hooks mounting, refetches,
\* a createAppointment and the clock
NextSingle ==
  \/ \E k \in Keys : MountFirst(k)
  \/ \E k \in Keys : FetchSucceed(k)
  \/ \E id \in InitialIds, status \in {"COMPLETE", "CANCELLED"} : Mutate(1, id, status)
  \/ MutateRetry(1, ConnectionLost)
  \/ MutateError(1, ConnectionLost)
  \/ MutateSuccess(1)
  \/ CreateAppointment
  \/ CreateSuccess
  \/ Tick

SpecSingle == Init /\ [][NextSingle]_vars

\* overlapping updateAppointmentStatus mutations on the appointment lists,
\* with refetches and a createAppointment
NextOverlap ==
  \/ \E k \in ListKeys : MountFirst(k)
  \/ \E k \in ListKeys : FetchSucceed(k)
  \/ \E m \in Mutations, id \in InitialIds, status \in {"COMPLETE", "CANCELLED"} :
       Mutate(m, id, status)
  \/ \E m \in Mutations : MutateRetry(m, ConnectionLost)
  \/ \E m \in Mutations : MutateError(m, ConnectionLost)
  \/ \E m \in Mutations : MutateSuccess(m)
  \/ CreateAppointment
  \/ CreateSuccess

SpecOverlap == Init /\ [][NextOverlap]_vars

\* the mutations' backend calls: failures, the retry policy, outcomes
NextMutation ==
  \/ \E m \in Mutations, id \in InitialIds, status \in {"COMPLETE", "CANCELLED"} :
       Mutate(m, id, status)
  \/ \E m \in Mutations, e \in ServiceErrors : MutateRetry(m, e)
  \/ \E m \in Mutations, e \in ServiceErrors : MutateError(m, e)
  \/ \E m \in Mutations : MutateSuccess(m)
  \/ CreateAppointment
  \/ \E e \in ServiceErrors : CreateRetry(e)
  \/ \E e \in ServiceErrors : CreateError(e)
  \/ CreateSuccess

SpecMutation == Init /\ [][NextMutation]_vars

\* one appointment-list query: mounting hooks, fetch outcomes, retries and
\* invalidation
NextQuery ==
  \/ Mount(PatientKey)
  \/ Unmount(PatientKey)
  \/ FetchSucceed(PatientKey)
  \/ \E e \in FetcherErrors : FetchRetry(PatientKey, e)
  \/ \E e \in FetcherErrors : FetchError(PatientKey, e)
  \/ InvalidateAppointments

SpecQuery == Init /\ [][NextQuery]_vars

\* the session store
NextAuth ==
  \/ \E c \in AuthCalls, kind \in AuthKinds : AuthStart(c, kind)
  \/ \E c \in AuthCalls, u \in Users, t \in Tokens : AuthResolve(c, u, t)
  \/ \E c \in AuthCalls, err \in AxiosFailures : AuthReject(c, err)
  \/ \E c \in AuthCalls : AuthRejectMalformed(c)
  \/ Logout
  \/ \E u \in Users : SetUser(u)
  \/ \E t \in Tokens : SetToken(t)
  \/ ClearError
  \/ Initialize

SpecAuth == Init /\ [][NextAuth]_vars

(* =============================== claims =============================== *)
\* the status the optimistic rewrite anticipates
Anticipated(status) == IF status = "COMPLETE" THEN "COMPLETED" ELSE "CANCELLED"

\* the snapshot pairs of both list prefixes as one function
SnapshotLists(context) ==
  [k \in (DOMAIN context.previousPatientAppointments)
           \cup (DOMAIN context.previousDoctorAppointments) |->
     IF k \in DOMAIN context.previousPatientAppointments
       THEN context.previousPatientAppointments[k]
       ELSE context.previousDoctorAppointments[k]]

\* whether an optional list holds appointment id / holds it with a status
Holds(list, id) ==
  IsSome(list) /\ \E i \in 1..Len(Val(list).data) : Val(list).data[i].id = id
HoldsWith(list, id, status) ==
  IsSome(list) /\ \E i \in 1..Len(Val(list).data) :
     Val(list).data[i].id = id /\ Val(list).data[i].status = status

MutateStep(m) == mut[m].pc = "idle" /\ mut'[m].pc = "pending"
RollbackStep(m) == mut[m].pc = "pending" /\ mut'[m].pc = "error"
SuccessStep(m) == mut[m].pc = "pending" /\ mut'[m].pc = "success"

\* onMutate's context holds the data of every list query and of the detail
\* entry as they were before the rewrite
SnapshotIsBefore(m) ==
  MutateStep(m) =>
    /\ \A k \in ListKeys :
         Exists(cache[k]) =>
           /\ k \in DOMAIN SnapshotLists(mut'[m].context)
           /\ SnapshotLists(mut'[m].context)[k] = cache[k].data
    /\ mut'[m].context.previousAppointment =
         cache[DetailKey(mut'[m].appointment_id)].data

\* the rollback leaves every entry the rewrite touched with its snapshot
\* data, writes no other entry, and the promise rejects with the failure
\* of the last backend call
RollbackRestores(m) ==
  RollbackStep(m) =>
    LET lists == SnapshotLists(mut[m].context)
        detail == DetailKey(mut[m].appointment_id)
    IN /\ \A k \in ListKeys :
            cache'[k].data =
              IF k \in DOMAIN lists /\ IsSome(lists[k]) THEN lists[k] ELSE cache[k].data
       /\ cache'[detail].data =
            IF IsSome(mut[m].context.previousAppointment)
              THEN mut[m].context.previousAppointment
              ELSE cache[detail].data
       /\ \A k \in DetailKeys \ {detail} : cache'[k].data = cache[k].data
       /\ mut'[m].error \in {Some(e) : e \in ServiceErrors}
       /\ mut'[m].error = mut'[m].failureReason

\* C1: when an updateAppointmentStatus mutation fails for good, every patient
\* list, doctor list and the detail entry that onMutate rewrote holds again
\* exactly the data it held immediately before the rewrite (previous status
\* and updatedAt included), and the promise rejects with the backend failure.
C1_RollbackRestoresSnapshot ==
  [][\A m \in Mutations : SnapshotIsBefore(m) /\ RollbackRestores(m)]_vars

\* C1 witness: a failed mutation after its retry, whose snapshot held both
\* lists and the detail entry, all of which show the appointment PENDING again
C1_Witness ==
  LET id == mut[1].appointment_id
  IN /\ mut[1].pc = "error"
     /\ mut[1].calls = 2
     /\ now > 0
     /\ HoldsWith(cache[PatientKey].data, id, "PENDING")
     /\ HoldsWith(cache[DoctorKey].data, id, "PENDING")
     /\ IsSome(mut[1].context.previousAppointment)
     /\ cache[DetailKey(id)].data = mut[1].context.previousAppointment
     /\ cache[PatientKey].data = mut[1].context.previousPatientAppointments[PatientKey]
     /\ cache[DoctorKey].data = mut[1].context.previousDoctorAppointments[DoctorKey]

\* the cache shows mutation m's optimistic status for its appointment, in a
\* list or in the detail entry
ShowsOptimistic(c, m) ==
  LET id == mut[m].appointment_id
      status == Anticipated(mut[m].status)
  IN \/ \E k \in ListKeys : HoldsWith(c[k].data, id, status)
     \/ /\ IsSome(c[DetailKey(id)].data)
        /\ Val(c[DetailKey(id)].data).status = status

\* no other mutation of the run anticipates the same status for the same
\* appointment
SoleWriter(m) ==
  \A j \in Mutations \ {m} :
    mut'[j].pc = "idle"
      \/ mut'[j].appointment_id # mut[m].appointment_id
      \/ mut'[j].status # mut[m].status

\* a step in which a mutation starts or succeeds, or a fetch resolves
LaterWriteStep ==
  \/ \E j \in Mutations : MutateStep(j) \/ SuccessStep(j)
  \/ \E k \in Keys : cache'[k].fetching < cache[k].fetching

\* C2: once a mutation has failed and its error has been surfaced, the cache
\* does not show that mutation's optimistic status for its appointment, and
\* does not come to show it again except through a later mutation or a fetch
\* (stated for a mutation that is the only one anticipating that status for
\* that appointment).
C2_NoDanglingOptimistic ==
  [][\A m \in Mutations :
       (mut'[m].pc = "error" /\ SoleWriter(m) /\ ShowsOptimistic(cache', m)) =>
         \/ mut[m].pc = "error" /\ ShowsOptimistic(cache, m)
         \/ LaterWriteStep]_vars

\* the appointments of an optional list other than id, in order
Others(list, id) ==
  IF IsSome(list) THEN SelectSeq(Val(list).data, LAMBDA x : x.id # id) ELSE <<>>

\* C3: the rollback of a failed updateAppointmentStatus mutation leaves every
\* other appointment of every cached list as it was just before the rollback
\* (an appointment prepended by createAppointment, another mutation's
\* optimistic status, refetched data).
C3_RollbackKeepsOthers ==
  [][\A m \in Mutations :
       RollbackStep(m) =>
         \A k \in ListKeys :
           Others(cache'[k].data, mut[m].appointment_id)
             = Others(cache[k].data, mut[m].appointment_id)]_vars

\* the appointment with this id in an optional list equals `value` wherever
\* the list holds it
HoldsOnly(list, id, value) ==
  IsSome(list) =>
    \A i \in 1..Len(Val(list).data) :
      Val(list).data[i].id = id => Val(list).data[i] = value

\* the response the service handed to onSuccess is the normalised record the
\* backend now holds, and the detail entry holds it
DetailReconciled(m) ==
  LET id == mut[m].appointment_id
  IN /\ mut'[m].data = Some(transformAppointment(Val(srv'[id])))
     /\ cache'[DetailKey(id)].data = mut'[m].data

\* C4 as stated: after onSuccess the detail entry and every patient/doctor
\* list holding the appointment hold it exactly as the server returned it.
C4_ServerValueEverywhere ==
  [][\A m \in Mutations :
       SuccessStep(m) =>
         /\ DetailReconciled(m)
         /\ \A k \in ListKeys :
              HoldsOnly(cache'[k].data, mut[m].appointment_id, Val(mut'[m].data))]_vars

\* C4 (amended): after onSuccess the detail entry holds the appointment
\* exactly as the server returned it; every cached patient/doctor list keeps
\* the data it had (the optimistic value included) and is marked invalidated,
\* so that a refetch replaces it.
C4_DetailReconciledListsInvalidated ==
  [][\A m \in Mutations :
       SuccessStep(m) =>
         /\ DetailReconciled(m)
         /\ \A k \in ListKeys :
              /\ cache'[k].data = cache[k].data
              /\ Exists(cache[k]) => cache'[k].isInvalidated]_vars

\* C4 witness: a succeeded mutation whose detail entry holds the server
\* value while an invalidated list still holds the optimistic one
C4_Witness ==
  LET id == mut[1].appointment_id
  IN /\ mut[1].pc = "success"
     /\ cache[DetailKey(id)].data = mut[1].data
     /\ cache[PatientKey].isInvalidated
     /\ Holds(cache[PatientKey].data, id)
     /\ ~HoldsOnly(cache[PatientKey].data, id, Val(mut[1].data))

\* every list whose snapshot held the appointment, and the detail entry when
\* the snapshot held it, show the anticipated status
ShowsAnticipated(c, mu) ==
  LET id == mu.appointment_id
      lists == SnapshotLists(mu.context)
  IN /\ \A k \in DOMAIN lists :
          Holds(lists[k], id) => HoldsWith(c[k].data, id, Anticipated(mu.status))
     /\ IsSome(mu.context.previousAppointment) =>
          /\ IsSome(c[DetailKey(id)].data)
          /\ Val(c[DetailKey(id)].data).status = Anticipated(mu.status)

QueryKeys == {PatientKey}

\* C6: a query whose fetcher fails with a 4xx-class failure (an ApiError
\* thrown by makeApiRequest or an error carrying response.status) has been
\* invoked exactly once and is not being retried.
C6_No4xxQueryRetry ==
  \A k \in QueryKeys :
    (IsSome(cache[k].fetchFailureReason) /\ Is4xx(Val(cache[k].fetchFailureReason))) =>
      cache[k].fetching = 0 /\ cache[k].calls = 1

\* C7: a fetch is never invoked more than 1 + 3 times; a query whose error
\* has been surfaced after non-4xx failures was invoked exactly 4 times; the
\* retry predicate is true for failureCount 0, 1, 2 and false from 3 on.
C7_FourInvocations ==
  /\ \A k \in QueryKeys :
       /\ cache[k].calls <= MaxQueryRetries + 1
       /\ (cache[k].fetching = 0 /\ IsSome(cache[k].fetchFailureReason)
             /\ ~Is4xx(Val(cache[k].fetchFailureReason))) =>
            cache[k].calls = MaxQueryRetries + 1
  /\ \A e \in FetcherErrors : \A failureCount \in 0..(MaxQueryRetries + 2) :
       ~Is4xx(e) => (queryRetry(failureCount, e) <=> failureCount < MaxQueryRetries)

\* C7 witness: a status-500 failure surfaced after four invocations
C7_Witness ==
  /\ cache[PatientKey].fetching = 0
  /\ IsSome(cache[PatientKey].fetchFailureReason)
  /\ StatusOf(Val(cache[PatientKey].fetchFailureReason)) = 500
  /\ cache[PatientKey].calls = MaxQueryRetries + 1
  /\ cache[PatientKey].fetchFailureCount = MaxQueryRetries + 1

\* C8: a mutation's backend call is made at most twice, and a second call is
\* made only after a network or 5xx failure, never after a 4xx failure.
C8_MutationRetryOnlyTransient ==
  /\ \A m \in Mutations :
       /\ mut[m].calls <= MutationRetry + 1
       /\ (mut[m].calls > 1 /\ mut[m].pc = "pending") =>
            ~Is4xx(Val(mut[m].failureReason))
  /\ cm.calls <= MutationRetry + 1
  /\ (cm.calls > 1 /\ cm.pc = "pending") => ~Is4xx(Val(cm.failureReason))

C10_SessionInvariant ==
  isAuthenticated = (user # "null" /\ token # "null")

\* a request answered with HTTP 401, as the service throws it
SessionExpired == makeApiRequestThrows([response |-> Some(401)])

\* the session store, the auth hooks and an appointment query whose request
\* is answered with 401
NextSession ==
  \/ \E kind \in AuthKinds : AuthStart(1, kind)
  \/ \E u \in Users, t \in Tokens : AuthResolve(1, u, t)
  \/ \E err \in AxiosFailures : AuthReject(1, err)
  \/ Logout
  \/ \E u \in Users, t \in Tokens : UseLoginSuccess(u, t)
  \/ \E err \in AxiosFailures : UseLoginError(err)
  \/ UseLogout
  \/ UseCurrentUser
  \/ MountFirst(PatientKey)
  \/ FetchSucceed(PatientKey)
  \/ FetchRetry(PatientKey, SessionExpired)
  \/ FetchError(PatientKey, SessionExpired)

SpecSession == Init /\ [][NextSession]_vars

\* addNotification when generateId yields an id no earlier notification
\* got (the least draw not yet used at this millisecond)
Fresh(r) == \A n \in issued : n.id # generateId(now, r)
addFresh(duration) ==
  \E r \in RandomDraws :
    /\ Fresh(r)
    /\ \A q \in RandomDraws : q < r => ~Fresh(q)
    /\ addNotification(r, duration)

\* the notification list under a simulated clock
NextUi ==
  \/ \E duration \in GivenDurations : addFresh(duration)
  \/ \E n \in issued : removeNotification(n.id)
  \/ clearNotifications
  \/ \E d \in ClockSteps : AdvanceTimers(d)

SpecUi == Init /\ [][NextUi]_vars

(* ------------------------------ session ------------------------------- *)
\* steps of one store call: it starts, it settles
StartStep(c) == authCall[c].pc = "idle" /\ authCall'[c].pc = "inflight"
SettleStep(c) == authCall[c].pc = "inflight" /\ authCall'[c].pc = "done"
ResolveStep(c) == SettleStep(c) /\ last'.name = "resolved"
RejectStep(c) == SettleStep(c) /\ last'.name = "rejected"

\* C11: every login / registerPatient / registerDoctor call sets isLoading
\* when it starts and leaves it false when it settles, on success and on
\* failure; isLoading is never true without a call in flight.
C11_LoadingResolved ==
  [][/\ \A c \in AuthCalls :
          /\ StartStep(c) => isLoading'
          /\ SettleStep(c) => ~isLoading'
     /\ isLoading' => \E c \in AuthCalls : authCall'[c].pc = "inflight"]_vars

\* C11 witness: both calls have settled, the last one by failing
C11_Witness ==
  /\ \A c \in 1..2 : authCall[c].pc = "done"
  /\ last.name = "rejected"
  /\ ~isLoading

\* C12: when a call succeeds with {user, token} the store is exactly
\* {user, token, isAuthenticated: true, isLoading: false, error: null} and the
\* legacy keys hold the same token and user.
C12_SuccessState ==
  [][\A c \in AuthCalls :
       ResolveStep(c) =>
         /\ user' \in Users /\ token' \in Tokens
         /\ isAuthenticated' /\ ~isLoading' /\ error' = "null"
         /\ lsToken' = token' /\ lsUser' = user']_vars

\* C12 witness: a login that replaced an earlier session's user and token
C12_Witness ==
  /\ last.name = "resolved"
  /\ \A c \in 1..2 : authCall[c].pc = "done"
  /\ user = "u2" /\ token = "t2" /\ lsUser = "u2" /\ lsToken = "t2"
  /\ isAuthenticated /\ ~isLoading /\ error = "null"

\* C13: when a call fails the store ends with user, token null,
\* isAuthenticated and isLoading false, whatever it held before, and the
\* caller receives the error the service raised (the error message being
\* that error's message, or the action's fallback).
C13_FailureState ==
  [][\A c \in AuthCalls :
       RejectStep(c) =>
         /\ user' = "null" /\ token' = "null"
         /\ ~isAuthenticated' /\ ~isLoading'
         /\ IsSome(last'.rejected)
         /\ Val(last'.rejected) \in ServiceErrors \cup {MalformedReply}
         /\ error' = errorMessage(Val(last'.rejected), authCall[c].kind)]_vars

\* C13 witness: a failure after a session had been established (the legacy
\* keys still hold it)
C13_Witness ==
  /\ last.name = "rejected"
  /\ StatusOf(Val(last.rejected)) = 400
  /\ lsToken = "t1" /\ lsUser = "u1"
  /\ user = "null" /\ token = "null" /\ ~isAuthenticated /\ ~isLoading

\* C14: logout can be called in every state and leaves the legacy keys
\* removed, the persisted subset unauthenticated and the store at
\* {user: null, token: null, isAuthenticated: false, isLoading: false,
\* error: null}.
C14_LogoutClears ==
  /\ ENABLED Logout
  /\ last.name = "logout" =>
       /\ lsToken = "null" /\ lsUser = "null"
       /\ persisted = [user |-> "null", token |-> "null", isAuthenticated |-> FALSE]
       /\ user = "null" /\ token = "null" /\ ~isAuthenticated
       /\ ~isLoading /\ error = "null"

\* C14 witness: logout while a call is still in flight, after an earlier
\* call had settled
C14_Witness ==
  /\ last.name = "logout"
  /\ authCall[1].pc = "done"
  /\ authCall[2].pc = "inflight"
  /\ ~isLoading

\* C15: initialize restores {isAuthenticated: true, user, token} from the
\* persisted user and token exactly when both are present, and yields
\* {isAuthenticated: false, user: null, token: null} otherwise; isLoading is
\* false and error null afterwards.
C15_InitializeRestores ==
  last.name = "initialize" =>
    /\ isAuthenticated = (lsToken # "null" /\ lsUser # "null")
    /\ isAuthenticated => user = lsUser /\ token = lsToken
    /\ ~isAuthenticated => user = "null" /\ token = "null"
    /\ ~isLoading /\ error = "null"

\* C15 witness: a session restored into a store that a failed call had
\* cleared
C15_Witness ==
  /\ last.name = "initialize"
  /\ \E c \in AuthCalls : authCall[c].pc = "done"
  /\ isAuthenticated /\ user = "u1" /\ token = "t2"

\* C16: the legacy keys auth_token / user_data hold a token and a user
\* exactly when the persisted subset of the session store does, with equal
\* values.
C16_PersistenceConsistent ==
  lsToken = persisted.token /\ lsUser = persisted.user

\* C19: a request carries the bearer token of the session when the session
\* holds one and no Authorization header otherwise.
C19_BearerIsSessionToken ==
  [][\A c \in AuthCalls :
       StartStep(c) =>
         last'.authorization = IF token # "null" THEN Some(token) ELSE None]_vars

\* the transport client handles a 401 for the first time in the run
First401Step == ~redirected /\ redirected'

\* C17: on an HTTP 401 the transport client clears the persisted session,
\* the legacy keys and the persisted subset of the session store alike, so
\* that nothing reports an authenticated user any more, and signals the
\* redirect to /login.
C17_UnauthorizedClearsSession ==
  [][First401Step =>
       /\ lsToken' = "null" /\ lsUser' = "null"
       /\ ~useIsAuthenticated'
       /\ user' = "null" /\ token' = "null" /\ ~isAuthenticated']_vars

\* C18: the current-user cache entry, when present, equals the session
\* store's current user.
C18_CurrentUserIsSessionUser ==
  IsSome(cu) => Val(cu) = user

(* --------------------------- notifications ---------------------------- *)
\* the effective duration D of an added notification: the given duration,
\* or 5000 ms when none was given
DurationOf(n) == IF IsSome(n.given) THEN Val(n.given) ELSE DefaultDuration
Present(n) == n.id \in IdsOf(notifications)
Elapsed(n) == now >= n.at + DurationOf(n)

NextUiIds ==
  \/ \E r \in RandomDraws, duration \in GivenDurations : addNotification(r, duration)
  \/ \E n \in issued : removeNotification(n.id)
  \/ clearNotifications
  \/ \E d \in ClockSteps : AdvanceTimers(d)

SpecUiIds == Init /\ [][NextUiIds]_vars

\* a step in which addNotification appends a notification
AddedStep == Len(notifications') = Len(notifications) + 1

\* C21: addNotification assigns every notification a unique id: no two
\* notifications in the list have the same id, and no id is given again
\* while a timer of an earlier notification with that id is still pending.
C21_UniqueIds ==
  [][/\ \A i, j \in 1..Len(notifications') :
          i # j => notifications'[i].id # notifications'[j].id
     /\ AddedStep =>
          notifications'[Len(notifications')].id \notin {x.id : x \in timers}]_vars

\* invalidation by prefix among appointment and doctor queries
InvalidateKeys == {PatientKey, DoctorKey, DetailKey(1), DoctorsKey}

NextInvalidate ==
  \/ \E k \in InvalidateKeys : Mount(k)
  \/ \E k \in InvalidateKeys : Unmount(k)
  \/ \E k \in InvalidateKeys : FetchSucceed(k)
  \/ InvalidatePatientAppointments
  \/ InvalidateDoctorAppointments
  \/ InvalidateAppointments

SpecInvalidate == InitWide /\ [][NextInvalidate]_vars

\* createAppointment among list hooks mounting, unmounting and refetching
CreateKeys == {PatientKey, SmallPageKey, DoctorKey}

NextCreate ==
  \/ \E k \in CreateKeys : Mount(k)
  \/ \E k \in CreateKeys : Unmount(k)
  \/ \E k \in CreateKeys : FetchSucceed(k)
  \/ CreateAppointment
  \/ CreateCommit
  \/ CreateReply

SpecCreate == InitWide /\ [][NextCreate]_vars

\* statuses the backend never leaves
Terminal == {"COMPLETED", "CANCELLED"}

\* C25: the optimistic rewrite of updateAppointmentStatus (and of the
\* cancel / complete hooks built on it) never changes the cached status of
\* an appointment that is already COMPLETED or CANCELLED: on every step
\* that runs onMutate, each item of each cached list and each cached detail
\* entry whose status was terminal keeps that status.
C25_TerminalStatusKept ==
  [][\A m \in Mutations :
       MutateStep(m) =>
         /\ \A k \in ListKeys :
              (IsSome(cache[k].data) /\ IsSome(cache'[k].data)) =>
                \A i \in 1..Len(Val(cache[k].data).data) :
                  Val(cache[k].data).data[i].status \in Terminal =>
                    Val(cache'[k].data).data[i].status =
                      Val(cache[k].data).data[i].status
         /\ \A k \in DetailKeys :
              (IsSome(cache[k].data) /\ IsSome(cache'[k].data)
                 /\ Val(cache[k].data).status \in Terminal) =>
                Val(cache'[k].data).status = Val(cache[k].data).status]_vars

\* what a step that invalidates by `prefix` must have done: no entry left
\* the cache, no entry's data changed, every cached entry under the prefix
\* is marked stale, and every entry outside the prefix is as it was
InvalidatedExactly(prefix) ==
  /\ DOMAIN cache' = DOMAIN cache
  /\ \A k \in DOMAIN cache :
       /\ cache'[k].data = cache[k].data
       /\ (Matches(prefix, k) /\ Exists(cache[k])) => cache'[k].isInvalidated
       /\ ~Matches(prefix, k) => cache'[k] = cache[k]

\* C27: invalidation by key prefix marks stale exactly the entries whose key
\* starts with the prefix and evicts nothing: invalidatePatientAppointments
\* touches only ['appointments','patient',*], invalidateDoctorAppointments
\* only ['appointments','doctor',*], invalidateAppointments every
\* ['appointments',*] entry; the data of all entries and the staleness of
\* the entries outside the prefix are unchanged.
C27_InvalidationByPrefix ==
  [][/\ InvalidatePatientAppointments =>
          InvalidatedExactly(<<"appointments", "patient">>)
     /\ InvalidateDoctorAppointments =>
          InvalidatedExactly(<<"appointments", "doctor">>)
     /\ InvalidateAppointments =>
          InvalidatedExactly(<<"appointments">>)]_vars

\* C27 witness: the patient list, held without a mounted hook, is stale
\* after an invalidation while the doctor list, a detail entry and the
\* doctors list hold data that is not stale
C27_Witness ==
  /\ IsSome(cache[PatientKey].data) /\ cache[PatientKey].observers = 0
  /\ cache[PatientKey].isInvalidated
  /\ \A k \in {DoctorKey, DetailKey(1), DoctorsKey} :
       IsSome(cache[k].data) /\ ~cache[k].isInvalidated

\* a step in which createAppointment's onSuccess runs
CreatedStep == cm.pc # "success" /\ cm'.pc = "success"

\* C28: after createAppointment has succeeded and onSuccess has finished,
\* every cached patient list and every cached doctor list is stale, so that
\* its next read refetches, lists without a mounted hook included: each
\* such list is marked invalidated or already being refetched.
C28_ListsStaleAfterCreate ==
  [][CreatedStep =>
       \A k \in CreateKeys :
         Exists(cache[k]) =>
           (cache'[k].isInvalidated \/ cache'[k].fetching > 0)]_vars

\* how often appointment id occurs in a list of appointments
Occurrences(items, id) == Cardinality({i \in 1..Len(items) : items[i].id = id})

\* C29: after createAppointment succeeds, each cached patient list that
\* holds paginated data contains the new appointment exactly once, as its
\* first element, followed by the previous elements in their previous
\* order, and its total is the previous total + 1; doctor lists, detail
\* entries and entries without data keep their data.
C29_PrependedOnce ==
  [][CreatedStep =>
       \A k \in DOMAIN cache :
         IF k \in PatientKeys /\ IsSome(cache[k].data)
           THEN LET before == Val(cache[k].data)
                    after == Val(cache'[k].data)
                IN /\ after.data = <<after.data[1]>> \o before.data
                   /\ after.data[1].id = CreatedId
                   /\ Occurrences(after.data, CreatedId) = 1
                   /\ after.pagination.total = Num(before.pagination.total.v + 1)
           ELSE cache'[k].data = cache[k].data]_vars

\* C30: every cached paginated appointment list keeps consistent pagination
\* metadata in every reachable state: the number of items in data never
\* exceeds pagination.limit and pagination.totalPages is
\* ceil(pagination.total / pagination.limit).
C30_PaginationConsistent ==
  \A k \in ListKeys \cup PatientKeys :
    IsSome(cache[k].data) =>
      LET list == Val(cache[k].data)
      IN /\ Len(list.data) <= list.pagination.limit.v
         /\ list.pagination.totalPages =
              Num(Ceil(list.pagination.total.v, list.pagination.limit.v))

\* the session store and the UI store used side by side
SessionAction ==
  \/ \E kind \in AuthKinds : AuthStart(1, kind)
  \/ AuthResolve(1, "u1", "t1")
  \/ AuthReject(1, [response |-> Some(400)])
  \/ AuthRejectMalformed(1)
  \/ Logout
  \/ SetUser("u1")
  \/ SetToken("t1")
  \/ ClearError
  \/ Initialize

UiAction ==
  \/ \E loading \in BOOLEAN : setLoading(loading)
  \/ addFresh(None)
  \/ \E n \in issued : removeNotification(n.id)
  \/ clearNotifications
  \/ openModal("confirm")
  \/ closeModal("confirm")
  \/ toggleModal("confirm")
  \/ closeAllModals
  \/ AdvanceTimers(DefaultDuration)

NextStores == SessionAction \/ UiAction

SpecStores == Init /\ [][NextStores]_vars

\* C22: the UI store and the session store never implicitly alter each
\* other: every session-store action (login, register, logout, setUser,
\* setToken, clearError, initialize) leaves the UI store's isLoading,
\* notifications and modals unchanged, and every UI-store action
\* (setLoading, add/remove/clearNotifications, open/close/toggle/
\* closeAllModals, timer-driven removal) leaves the session store's user,
\* token, isAuthenticated, isLoading and error unchanged.
C22_StoresIndependent ==
  [][/\ SessionAction => UNCHANGED <<uiIsLoading, notifications, modals>>
     /\ UiAction => UNCHANGED <<user, token, isAuthenticated, isLoading, error>>]_vars

\* C22 witness: a session is open (login resolved) while the UI store
\* shows loading, holds a notification and has a modal open
C22_Witness ==
  /\ isAuthenticated /\ user = "u1" /\ authCall[1].pc = "done"
  /\ uiIsLoading /\ Len(notifications) > 0
  /\ "confirm" \in DOMAIN modals /\ modals["confirm"]

\* pairs of filters objects handed to one key factory
InitKeys ==
  /\ InitBackend /\ InitCache /\ InitAuth /\ InitUi
  /\ input \in [factory : KeyFactories, a : FilterObjects, b : FilterObjects]
  /\ output = None

NextKeys == CallKeyFactory

SpecKeys == InitKeys /\ [][NextKeys]_vars

\* C23: cache keys are normalized: two requests for the same resource whose
\* filters have the same effective parameters (in another property order,
\* or one omitting a parameter the other gives at its default) get the same
\* cache key and so share one cache entry.
C23_KeysNormalized ==
  (IsSome(output) /\ effectiveFilters(input.a) = effectiveFilters(input.b))
    => Val(output).a = Val(output).b

\* replies handed to the normaliser: each pagination field absent, zero, a
\* number, a numeral in a string or another string; the pagination object
\* or the data array missing; appointments in camelCase, in snake_case,
\* without a timestamp, with a status the client does not know
PaginationValues == {Undefined, Num(0), Num(3), NumericString(5), OtherString}
RawAppointments ==
  {[id |-> 1, status |-> s, updatedAt |-> 0] : s \in {"COMPLETED", "BOOKED"}}
    \cup {[id |-> 1, status |-> "CANCELLED", updated_at |-> 0],
          [id |-> 1, status |-> "PENDING"]}
RawPaginations ==
  [page : PaginationValues, limit : PaginationValues,
   total : PaginationValues, totalPages : PaginationValues]
Payloads ==
  {[success |-> TRUE, data |-> <<a>>, pagination |-> p] :
     a \in RawAppointments, p \in RawPaginations}
    \cup {[success |-> TRUE, pagination |-> p] : p \in RawPaginations}
    \cup {[success |-> TRUE, data |-> <<a>>] : a \in RawAppointments}

InitNormalize ==
  /\ InitBackend /\ InitCache /\ InitAuth /\ InitUi
  /\ input \in Payloads
  /\ output = None

NextNormalize ==
  \/ Normalize
  \/ NormalizeAgain
  \/ Tick

SpecNormalize == InitNormalize /\ [][NextNormalize]_vars

\* C24: the response normaliser is idempotent: normalising the already
\* normalised result again yields an equal object, for payloads with
\* snake_case fields, missing fields, unknown status values and missing or
\* zero pagination fields included.
C24_NormalizerIdempotent ==
  (IsSome(output) /\ IsSome(Val(output).twice))
    => Val(Val(output).twice) = Val(output).once

\* the pagination object of the reply that was normalised ({} when missing)
GivenPagination ==
  IF "pagination" \in DOMAIN input THEN input.pagination ELSE [page |-> Undefined]
Given(name) == Field(GivenPagination, name)
Returned == Val(output).once.pagination

\* the four fields are returned as numbers, and a field that is absent gets
\* its default
NumbersWithDefaults ==
  /\ \A name \in {"page", "limit", "total", "totalPages"} :
       Returned[name].t \in {"number", "NaN"}
  /\ Given("page") = Undefined => Returned.page = Num(1)
  /\ Given("limit") = Undefined => Returned.limit = Num(DefaultLimit)
  /\ Given("total") = Undefined => Returned.total = Num(0)

\* C26 as stated: page, limit, total and totalPages are returned as numbers,
\* page defaulting to 1, limit to 10 and total to 0 when absent, and
\* totalPages is the payload's totalPages when given and otherwise
\* ceil(total / limit) computed with the limit that is returned.
C26_PaginationNumbers ==
  IsSome(output) =>
    /\ NumbersWithDefaults
    /\ Returned.totalPages =
         IF Given("totalPages") # Undefined THEN Number(Given("totalPages"))
         ELSE CeilOfQuotient(Returned.total, Returned.limit)

\* C26 (amended): page, limit, total and totalPages are returned as numbers
\* (NaN for a value that is not numeric), page defaulting to 1, limit to 10
\* and total to 0 when absent or zero, and totalPages is the payload's
\* totalPages when given and not zero and otherwise ceil(total / limit)
\* computed with the total and the limit that are returned.
C26_PaginationNumbersNonZero ==
  IsSome(output) =>
    /\ NumbersWithDefaults
    /\ Given("page") = Num(0) => Returned.page = Num(1)
    /\ Given("limit") = Num(0) => Returned.limit = Num(DefaultLimit)
    /\ Given("total") = Num(0) => Returned.total = Num(0)
    /\ \A name \in {"page", "limit", "total"} :
         Truthy(Given(name)) => Returned[name] = Number(Given(name))
    /\ Returned.totalPages =
         IF Truthy(Given("totalPages")) THEN Number(Given("totalPages"))
         ELSE CeilOfQuotient(Returned.total, Returned.limit)

\* C26 witness: a reply with total '5' and limit 3 and without totalPages
\* and page has been normalised to page 1, limit 3, total 5, totalPages 2
C26_Witness ==
  /\ IsSome(output)
  /\ Given("total") = NumericString(5) /\ Given("limit") = Num(3)
  /\ Given("totalPages") = Undefined /\ Given("page") = Undefined
  /\ Returned = [page |-> Num(1), limit |-> Num(3), total |-> Num(5),
                 totalPages |-> Num(2)]

(* ---------------------------- C31 .. C39 ------------------------------ *)
\* one updateAppointmentStatus mutation in a cache that also holds the
\* doctors list
FrameKeys == {PatientKey, DoctorKey, DetailKey(1), DoctorsKey}

NextFrame ==
  \/ \E k \in FrameKeys : MountFirst(k)
  \/ \E k \in FrameKeys : FetchSucceed(k)
  \/ \E id \in InitialIds, status \in {"COMPLETE", "CANCELLED"} : Mutate(1, id, status)

SpecFrame == InitWide /\ [][NextFrame]_vars

\* what the rewrite of a list must be: the same items in the same order,
\* the one with the mutation's id carrying the anticipated status, the
\* others and the pagination as they were
RewrittenList(before, after, id, status) ==
  /\ Len(after.data) = Len(before.data)
  /\ after.pagination = before.pagination
  /\ \A i \in 1..Len(before.data) :
       IF before.data[i].id = id
         THEN after.data[i].id = id /\ after.data[i].status = Anticipated(status)
         ELSE after.data[i] = before.data[i]

\* C31: the optimistic rewrite of updateAppointmentStatus changes only the
\* appointment with the mutation's id: in every cached patient/doctor list
\* and in the detail entry its status becomes COMPLETED or CANCELLED, while
\* every other appointment, the order and number of items, the pagination
\* and every entry outside ['appointments', ...] are unchanged; a detail
\* entry that did not exist is not created.
C31_RewriteOnlyTarget ==
  [][\A m \in Mutations :
       MutateStep(m) =>
         LET id == mut'[m].appointment_id
             status == mut'[m].status
         IN \A k \in DOMAIN cache :
              IF ~Matches(<<"appointments">>, k) THEN cache'[k] = cache[k]
              ELSE IF ~IsSome(cache[k].data) THEN cache'[k].data = None
              ELSE IF k \in ListKeys
                THEN /\ IsSome(cache'[k].data)
                     /\ RewrittenList(Val(cache[k].data), Val(cache'[k].data), id, status)
              ELSE IF k = DetailKey(id)
                THEN /\ IsSome(cache'[k].data)
                     /\ Val(cache'[k].data).id = id
                     /\ Val(cache'[k].data).status = Anticipated(status)
              ELSE cache'[k].data = cache[k].data]_vars

\* C31 witness: a mutation on appointment 1 is pending; patient and doctor
\* list show it with the anticipated status and appointment 2 as PENDING,
\* the detail entry shows it, and the doctors list holds its data
C31_Witness ==
  /\ mut[1].pc = "pending" /\ mut[1].appointment_id = 1
  /\ \A k \in ListKeys :
       /\ HoldsWith(cache[k].data, 1, Anticipated(mut[1].status))
       /\ HoldsWith(cache[k].data, 2, "PENDING")
  /\ IsSome(cache[DetailKey(1)].data)
  /\ Val(cache[DetailKey(1)].data).status = Anticipated(mut[1].status)
  /\ ~IsSome(cache[DetailKey(2)].data)
  /\ IsSome(cache[DoctorsKey].data)

\* updateAppointmentStatus mutations whose onMutate is suspended at its
\* await, among fetches, invalidation and a rollback
RewriteKeys == {PatientKey, DetailKey(1)}

NextRewrite ==
  \/ \E k \in RewriteKeys : MountFirst(k)
  \/ \E k \in RewriteKeys : FetchSucceed(k)
  \/ InvalidateAppointments
  \/ MutateBegin(1, 1, "COMPLETE")
  \/ \E id \in InitialIds : MutateBegin(2, id, "CANCELLED")
  \/ \E m \in Mutations : MutateRewrite(m)
  \/ \E m \in Mutations : MutateRetry(m, ConnectionLost)
  \/ \E m \in Mutations : MutateError(m, ConnectionLost)

SpecRewrite == InitWide /\ [][NextRewrite]_vars

RewriteStep(m) == mut[m].pc = "onMutate" /\ mut'[m].pc = "pending"

\* C32: in onMutate the snapshot and the optimistic writes form one step with
\* respect to every other cache operation: the context holds the data of
\* every list query and of the detail entry exactly as the cache held them
\* in the state the rewrite starts from, and the cache after the step is
\* that state's rewrite, with nothing else applied in between.
C32_SnapshotAtomic ==
  [][\A m \in Mutations :
       RewriteStep(m) =>
         LET id == mut[m].appointment_id
             lists == SnapshotLists(mut'[m].context)
         IN /\ \A k \in ListKeys \cap DOMAIN cache :
                 Exists(cache[k]) => k \in DOMAIN lists /\ lists[k] = cache[k].data
            /\ \A k \in DOMAIN lists : lists[k] = cache[k].data
            /\ mut'[m].context.previousAppointment = cache[DetailKey(id)].data
            /\ cache' = rewriteOptimistically(cache, id, mut[m].status, now).cache]_vars

\* C32 witness: mutation 2 rewrote appointment 1 while mutation 1 was
\* suspended at its await; mutation 1's snapshot holds that rewrite, and
\* both are pending
C32_Witness ==
  /\ mut[1].pc = "pending" /\ mut[2].pc = "pending"
  /\ mut[2].appointment_id = 1
  /\ PatientKey \in DOMAIN SnapshotLists(mut[1].context)
  /\ HoldsWith(SnapshotLists(mut[1].context)[PatientKey], 1, "CANCELLED")
  /\ HoldsWith(cache[PatientKey].data, 1, "COMPLETED")

\* ---- errorUtils.retry ----
\* largest maxRetries argument of a call
MaxRetriesArg == 3
BaseDelays == {1000}

\* what fn may reject with: instances of the error classes, plain objects
\* with a status, and an Error without one
RetryFailures ==
  {[class |-> "AuthenticationError", status |-> Some(401)],
   [class |-> "AuthorizationError", status |-> Some(403)],
   [class |-> "ValidationAppError", status |-> Some(400)],
   [class |-> "NetworkError", status |-> Some(0)],
   [class |-> "Error", status |-> None]}
  \cup {[class |-> "Object", status |-> Some(n)] : n \in {400, 401, 403, 404, 500}}

FnOutcomes == {[ok |-> TRUE]} \cup {[ok |-> FALSE, error |-> e] : e \in RetryFailures}

\* errorUtils.isAuthError / isAuthorizationError / isValidationError
isAuthError(e) == e.class = "AuthenticationError" \/ e.status = Some(401)
isAuthorizationError(e) == e.class = "AuthorizationError" \/ e.status = Some(403)
isValidationError(e) == e.class = "ValidationAppError" \/ e.status = Some(400)

\* a backoff that grows linearly
retryDelayLinear(baseDelay, attempt) == baseDelay * (attempt + 1)

\* baseDelay * Math.pow(2, attempt)
retryDelay(baseDelay, attempt) == baseDelay * 2^attempt

\* errorUtils.retry is called: the loop starts with attempt 0
retry(maxRetries, baseDelay) ==
  /\ input = None /\ output = None
  /\ input' = Some([maxRetries |-> maxRetries, baseDelay |-> baseDelay])
  /\ output' = Some([pc |-> "loop", attempt |-> 0, outcomes |-> <<>>,
                      waited |-> <<>>, lastError |-> None,
                      returned |-> None, thrown |-> None])
  /\ UNCHANGED <<cacheVars, authVars, sessionVars, uiVars>>

\* one pass of the loop body: `await fn()` settles with outcome r
RetryAttempt(r) ==
  /\ IsSome(output) /\ Val(output).pc = "loop"
  /\ LET o == Val(output)
         a == Val(input)
         called == [o EXCEPT !.outcomes = Append(@, r)]
     IN /\ o.attempt <= a.maxRetries
        /\ output' = Some(
             IF r.ok
               THEN [called EXCEPT !.pc = "returned",
                                   !.returned = Some(Len(called.outcomes))]
             ELSE IF isAuthError(r.error) \/ isAuthorizationError(r.error)
                       \/ isValidationError(r.error) \/ o.attempt = a.maxRetries
               THEN [called EXCEPT !.pc = "thrown", !.lastError = Some(r.error),
                                   !.thrown = Some(r.error)]
               ELSE [called EXCEPT !.pc = "waiting", !.lastError = Some(r.error),
                                   !.waited = Append(@, retryDelay(a.baseDelay, o.attempt))])
  /\ UNCHANGED input
  /\ UNCHANGED <<cacheVars, authVars, sessionVars, uiVars>>

\* the backoff timer fires: attempt++, and the loop condition is tested;
\* past the loop the last error is thrown
RetryWake ==
  /\ IsSome(output) /\ Val(output).pc = "waiting"
  /\ LET o == Val(output)
     IN output' = Some(
          IF o.attempt + 1 <= Val(input).maxRetries
            THEN [o EXCEPT !.pc = "loop", !.attempt = @ + 1]
            ELSE [o EXCEPT !.pc = "thrown", !.attempt = @ + 1, !.thrown = o.lastError])
  /\ UNCHANGED input
  /\ UNCHANGED <<cacheVars, authVars, sessionVars, uiVars>>

NextRetry ==
  \/ \E maxRetries \in 0..MaxRetriesArg, baseDelay \in BaseDelays : retry(maxRetries, baseDelay)
  \/ \E r \in FnOutcomes : RetryAttempt(r)
  \/ RetryWake

\* every call of fn settles and every backoff timer fires
SpecRetry ==
  /\ Init /\ [][NextRetry]_vars
  /\ WF_vars(\E r \in FnOutcomes : RetryAttempt(r))
  /\ WF_vars(RetryWake)

\* the failures the retry loop gives up on at once
GivesUpOn(e) == e.status \in {Some(400), Some(401), Some(403)}

RetryDone == IsSome(output) /\ Val(output).pc \in {"returned", "thrown"}

RetryObeysPolicy ==
  IsSome(output) =>
    LET o == Val(output)
        a == Val(input)
        n == Len(o.outcomes)
    IN /\ n <= a.maxRetries + 1
       /\ \A i \in 1..(n - 1) : ~o.outcomes[i].ok /\ ~GivesUpOn(o.outcomes[i].error)
       /\ \A i \in 1..Len(o.waited) : o.waited[i] = a.baseDelay * 2^(i - 1)
       /\ o.pc = "waiting" => Len(o.waited) = n /\ n <= a.maxRetries
       /\ o.pc = "loop" => Len(o.waited) = n
       /\ o.pc = "returned" =>
            /\ o.outcomes[n].ok /\ o.returned = Some(n) /\ Len(o.waited) = n - 1
       /\ o.pc = "thrown" =>
            /\ ~o.outcomes[n].ok /\ o.thrown = Some(o.outcomes[n].error)
            /\ Len(o.waited) = n - 1
            /\ GivesUpOn(o.outcomes[n].error) \/ n = a.maxRetries + 1

\* C33: errorUtils.retry(fn, maxRetries, baseDelay) always terminates: it
\* invokes fn at most maxRetries + 1 times, returns the first successful
\* result, rethrows right after the attempt and without a delay when fn
\* fails with a 401, 403 or 400 error, otherwise waits baseDelay * 2^attempt
\* before the next attempt, and rethrows the last error after the final one.
C33_RetryTerminates ==
  /\ []RetryObeysPolicy
  /\ (IsSome(output) ~> RetryDone)

\* C33 witness: fn failed maxRetries + 1 = 4 times with retriable errors,
\* the waits were 1000, 2000, 4000, and the last error was rethrown
C33_Witness ==
  /\ IsSome(output) /\ Val(output).pc = "thrown"
  /\ Val(input).maxRetries = 3
  /\ Len(Val(output).outcomes) = 4
  /\ Val(output).waited = <<1000, 2000, 4000>>
  /\ Val(output).thrown = Some([class |-> "Object", status |-> Some(500)])

\* after is before without the notifications whose id is in ids: the others
\* are all present, each moved up by the number of removed ones before it
RemovedExactly(before, after, ids) ==
  LET gone(i) == Cardinality({j \in 1..i : before[j].id \in ids})
  IN /\ Len(after) = Len(before) - gone(Len(before))
     /\ \A i \in 1..Len(before) :
          before[i].id \notin ids => after[i - gone(i)] = before[i]

\* the timers that fire in a step
FiredIds == {x.id : x \in timers \ timers'}

\* C34: removeNotification(id), called manually or by an auto-dismiss timer,
\* removes exactly the notification with that id and leaves all others
\* present in their original order; when no notification has that id (it was
\* removed manually or by clearNotifications before its timer fired) the
\* list is unchanged.
C34_RemoveExactlyThatId ==
  [][/\ \A n \in issued :
          removeNotification(n.id) =>
            /\ RemovedExactly(notifications, notifications', {n.id})
            /\ (n.id \notin IdsOf(notifications) => notifications' = notifications)
     /\ now' > now =>
            /\ RemovedExactly(notifications, notifications', FiredIds)
            /\ (FiredIds \cap IdsOf(notifications) = {} => notifications' = notifications)]_vars

\* C34 witness: of two notifications the first was removed by hand, its timer
\* has fired since, and the second, which has no timer, is still listed
C34_Witness ==
  /\ Len(notifications) = 1
  /\ \E n \in issued :
       /\ n.removed /\ n.nth = 1 /\ n.id # notifications[1].id
       /\ effectiveDuration(n.given) > 0
       /\ now >= n.at + effectiveDuration(n.given)
       /\ \A x \in timers : x.id # n.id
  /\ notifications[1].duration = 0

\* C35: a logged-out session is never resurrected by a stale response: when
\* logout() ran while a login or register call was in flight and that call
\* resolves next, the store stays unauthenticated (user and token null, the
\* legacy keys absent).
C35_NoResurrection ==
  [][(last.name = "logout" /\ last'.name = "resolved") =>
       /\ ~isAuthenticated' /\ user' = "null" /\ token' = "null"
       /\ lsToken' = "null" /\ lsUser' = "null"]_vars

\* C36: whenever at least one login, registerPatient or registerDoctor call
\* is in flight, the session store's isLoading is true.
C36_LoadingWhileInFlight ==
  (\E c \in AuthCalls : authCall[c].pc = "inflight") => isLoading

\* a failure that carries an HTTP status is a reply of the backend: the
\* request it answers has reached it
AnsweredByBackend(e) == e.status \notin {None, Some(0)}

\* C37: one invocation of the createAppointment mutation causes at most one
\* POST /appointments to reach the backend, whatever the outcome of the
\* request: no second POST is sent after one the backend has answered.
C37_AtMostOnePost ==
  ~(/\ cm.calls > 1
    /\ IsSome(cm.failureReason)
    /\ AnsweredByBackend(Val(cm.failureReason)))

\* C38: when login, registerPatient or registerDoctor fails, the session
\* store's error field equals the message of the failure the domain service
\* raised, for an Error instance and for the ApiError value that
\* makeApiRequest throws alike.
C38_ErrorIsServiceMessage ==
  [][\A c \in AuthCalls :
       RejectStep(c) => error' = Val(last'.rejected).message]_vars

\* ---- useDoctorsInfinite ----
\* largest number of pages of the doctors listing
MaxPages == 3

\* x < y and x > y on numbers; a comparison with NaN is false
Less(x, y) == x.t = "number" /\ y.t = "number" /\ x.v < y.v
Greater(x, y) == Less(y, x)

\* a getNextPageParam that offers the page after the last one as well
getNextPageParamInclusive(lastPage) ==
  IF ~Greater(lastPage.pagination.page, lastPage.pagination.totalPages)
    THEN Some(Plus(lastPage.pagination.page, 1))
    ELSE None

\* getNextPageParam: page < totalPages ? page + 1 : undefined
getNextPageParam(lastPage) ==
  IF Less(lastPage.pagination.page, lastPage.pagination.totalPages)
    THEN Some(Plus(lastPage.pagination.page, 1))
    ELSE None

\* getPreviousPageParam: page > 1 ? page - 1 : undefined
getPreviousPageParam(firstPage) ==
  IF Greater(firstPage.pagination.page, Num(1))
    THEN Some(Plus(firstPage.pagination.page, -1))
    ELSE None

\* GET /doctors with {...filters, page: pageParam} on a backend whose
\* listing has T pages: the page asked for, and no doctor's fields
doctorsReply(pageParam, T) ==
  [success |-> TRUE, data |-> <<>>,
   pagination |-> [page |-> pageParam, limit |-> Num(DefaultLimit),
                   total |-> Num(T * DefaultLimit), totalPages |-> Num(T)]]

\* paginations a cached page can carry after normalisation
PageNumbers == {Num(n) : n \in 0..MaxPages} \cup {NaN}
Paginations == [page : PageNumbers, totalPages : PageNumbers]

\* both page-param functions are applied to a page with pagination p
ReadPageParams(p) ==
  /\ input = None
  /\ input' = Some([pagination |-> p,
                     next |-> getNextPageParam([pagination |-> p]),
                     previous |-> getPreviousPageParam([pagination |-> p])])
  /\ UNCHANGED output
  /\ UNCHANGED <<cacheVars, authVars, sessionVars, uiVars>>

\* the hook mounts: the first fetch runs queryFn with initialPageParam 1
useDoctorsInfinite(T) ==
  /\ output = None
  /\ output' = Some([pc |-> "fetching", totalPages |-> T, pageParam |-> Num(1),
                      pages |-> <<>>, requested |-> <<Num(1)>>])
  /\ UNCHANGED input
  /\ UNCHANGED <<cacheVars, authVars, sessionVars, uiVars>>

\* queryFn resolves: the normalised page is appended to data.pages
InfiniteFetchSucceed ==
  /\ IsSome(output) /\ Val(output).pc = "fetching"
  /\ LET o == Val(output)
     IN output' = Some([o EXCEPT
          !.pc = "idle",
          !.pages = Append(@, transformPaginatedResponse(
                                doctorsReply(o.pageParam, o.totalPages)))])
  /\ UNCHANGED input
  /\ UNCHANGED <<cacheVars, authVars, sessionVars, uiVars>>

\* fetchNextPage(): the library asks getNextPageParam for the param of the
\* page after the last one held and fetches it; without one it does nothing
fetchNextPage ==
  /\ IsSome(output) /\ Val(output).pc = "idle"
  /\ LET o == Val(output)
         param == getNextPageParam(o.pages[Len(o.pages)])
     IN /\ IsSome(param)
        /\ output' = Some([o EXCEPT !.pc = "fetching", !.pageParam = Val(param),
                                     !.requested = Append(@, Val(param))])
  /\ UNCHANGED input
  /\ UNCHANGED <<cacheVars, authVars, sessionVars, uiVars>>

NextInfinite ==
  \/ \E p \in Paginations : ReadPageParams(p)
  \/ \E T \in 0..MaxPages : useDoctorsInfinite(T)
  \/ InfiniteFetchSucceed
  \/ fetchNextPage

\* every request settles, and fetchNextPage is called again and again
SpecInfinite ==
  /\ Init /\ [][NextInfinite]_vars
  /\ WF_vars(InfiniteFetchSucceed)
  /\ WF_vars(fetchNextPage)

\* the pages up to the last one of a listing with T pages (the first page is
\* fetched even when the listing is empty)
PagesOf(T) == [i \in 1..(IF T = 0 THEN 1 ELSE T) |-> Num(i)]

PageParamsAsStated ==
  IsSome(input) =>
    LET page == Val(input).pagination.page
        totalPages == Val(input).pagination.totalPages
        numbers == page.t = "number" /\ totalPages.t = "number"
    IN /\ Val(input).next =
            IF numbers /\ page.v < totalPages.v THEN Some(Num(page.v + 1)) ELSE None
       /\ Val(input).previous =
            IF page.t = "number" /\ page.v > 1 THEN Some(Num(page.v - 1)) ELSE None

PagesInOrder ==
  IsSome(output) =>
    LET o == Val(output)
        n == Len(o.requested)
    IN /\ n <= Len(PagesOf(o.totalPages))
       /\ o.requested = SubSeq(PagesOf(o.totalPages), 1, n)
       /\ o.totalPages = 0 => o.requested = <<Num(1)>>

InfiniteStopped ==
  /\ IsSome(output) /\ Val(output).pc = "idle"
  /\ Val(output).requested = PagesOf(Val(output).totalPages)
  /\ ~ENABLED fetchNextPage

\* C39: the infinite doctor listing terminates and visits pages in order:
\* getNextPageParam returns page + 1 exactly when page < totalPages and
\* nothing otherwise, getPreviousPageParam returns page - 1 exactly when
\* page > 1; from page 1 with a fixed totalPages T, repeated fetchNextPage
\* requests pages 1, 2, ..., T once each and then stops, and with T = 0 no
\* page beyond the first is requested.
C39_InfiniteListingStops ==
  /\ [](PageParamsAsStated /\ PagesInOrder)
  /\ (IsSome(output) ~> []InfiniteStopped)

\* C39 witness: a listing of three pages was read to its end, pages 1, 2, 3
\* requested in that order; and the functions were applied to page 2 of 3
C39_Witness ==
  /\ IsSome(output) /\ Val(output).pc = "idle"
  /\ Val(output).requested = <<Num(1), Num(2), Num(3)>>
  /\ Len(Val(output).pages) = 3
  /\ IsSome(input)
  /\ Val(input).pagination = [page |-> Num(2), totalPages |-> Num(3)]
  /\ Val(input).next = Some(Num(3)) /\ Val(input).previous = Some(Num(1))

====
